---- MODULE Spec2Model ----
(***************************************************************************)
(* Model of the toggle-and-counter handlers of the VibeTube backend: the   *)
(* like toggle (three revisions of the handler) and the subscription       *)
(* handlers (two revisions of the controller, three of the model).  Every  *)
(* await of a handler is one atomic database operation and one action of   *)
(* the model; requests interleave between their awaits.                    *)
(***************************************************************************)
EXTENDS Integers, Sequences, FiniteSets, TLC

\* ------------------------------------------------------------------ bounds
MaxReqs == 2        \* requests issued in one run
MaxInFlight == 2    \* requests in flight at once when the run is not serial
MaxTokReqs == 3     \* login and refresh requests issued in one run
MaxSeconds == 1     \* seconds the clock ticks
MaxLifetimes == 1   \* refresh-token lifetimes the clock jumps
MaxHistory == 3     \* entries of a stored watchHistory

\* -------------------------------------------------------------- universe
Users == {"A", "B"}
NoId == "none"
Videos == {"v1"}
Posts == {"p1"}
Comments == {"c1"}
MissingIds == {"v9"}
TargetIds == Videos \cup Posts \cup Comments
\* the (:type, :id) pairs requests are made with; v9 names no document
LikeParams == {<<"Video", "v1">>, <<"Post", "p1">>, <<"Comment", "c1">>,
               <<"Video", "v9">>, <<"video", "v1">>}

\* the three revisions of toggleLike, each with the Like model of its time
LikeRevs == {"like.controller", "part_009", "part_014"}

VARIABLES
    serial,       \* TRUE: requests do not overlap; FALSE: they interleave
    likeRev,      \* the revision of toggleLike that is deployed
    likes,        \* the Like collection: a set of rows
    likesCount,   \* likesCount of every existing video, post and comment
    likeReqs,     \* the toggleLike requests in flight, by slot
    likeDone,     \* the toggleLike requests answered, in the order answered
    subRev,       \* the revision of the Subscription model that is deployed
    subs,         \* the Subscription collection: a set of rows
    subscribersCount,   \* subscribersCount of every user
    subReqs,      \* the subscription requests in flight, by slot
    subDone,      \* the subscription requests answered, in the order answered
    issued,       \* how many requests the run has issued; the next _id is issued + 1
    viewRev,      \* the revision of the view-logging handlers that is deployed
    views,        \* the View collection: a set of rows
    viewsCount,   \* the views counter of every existing video
    viewReqs,     \* the logView / getVideoById requests in flight, by slot
    viewDone,     \* the logView / getVideoById requests answered, in order
    watchHistory, \* watchHistory of every user: video ids, most recent first
    histReqs,     \* the watch-history requests in flight, by slot
    histDone,     \* the watch-history requests answered, in order
    ownRev,       \* the revision of the update / delete handlers that is deployed
    docs,         \* the videos, posts, playlists and comments stored
    ownReqs,      \* the update / delete requests in flight, by slot
    ownDone,      \* the update / delete requests answered, in order
    now,          \* the clock, in seconds
    logoutRev,    \* the revision of logoutUser that is deployed
    refreshTokens,   \* refreshToken of every user
    tokReqs,      \* the login / refresh requests in flight, by slot
    tokDone,      \* the login / refresh requests answered, in order
    errRev,       \* the revision of the global error handler that is deployed
    thrown,       \* the error a handler threw and no one has answered yet
    errDone,      \* the errors answered, with the response sent, in order
    authLog,      \* what verifyToken decided, request by request
    playlistVideos,  \* videos of every playlist, in order
    commentsCount    \* commentsCount of every video

likeVars == <<likeRev, likes, likesCount, likeReqs, likeDone>>
subVars == <<subRev, subs, subscribersCount, subReqs, subDone>>
viewVars == <<viewRev, views, viewsCount, viewReqs, viewDone>>
histVars == <<watchHistory, histReqs, histDone>>
ownVars == <<ownRev, docs, ownReqs, ownDone>>
tokVars == <<now, logoutRev, refreshTokens, tokReqs, tokDone>>
errVars == <<errRev, thrown, errDone>>
listVars == <<playlistVideos, commentsCount>>
vars == <<serial, issued, likeVars, subVars, viewVars, histVars, ownVars, tokVars, errVars,
          authLog, listVars>>

\* what the like handlers never touch, and what the subscription handlers never touch
likeFrame == <<serial, subVars, viewVars, histVars, ownVars, tokVars, errVars, authLog,
    listVars>>
subFrame == <<serial, likeVars, viewVars, histVars, ownVars, tokVars, errVars, authLog,
    listVars>>
viewFrame == <<serial, likeVars, subVars, histVars, ownVars, tokVars, errVars, authLog,
    listVars>>
histFrame == <<serial, likeVars, subVars, viewVars, ownVars, tokVars, errVars, authLog,
    listVars>>
ownFrame == <<serial, likeVars, subVars, viewVars, histVars, tokVars, errVars, authLog,
    listVars>>
tokFrame == <<serial, likeVars, subVars, viewVars, histVars, ownVars, errVars, authLog,
    listVars>>
errFrame == <<serial, likeVars, subVars, viewVars, histVars, ownVars, tokVars,
             authLog, listVars>>

\* what the playlist-video and comment handlers never touch
listFrame == <<serial, likeVars, subVars, viewVars, histVars, tokVars, errVars,
              authLog>>

\* ------------------------------------------------------------- documents
\* softDelete: the models' soft-delete hook is on find, findOne and
\* findOneAndUpdate; softDeleteFindHook: the Playlist and Post models of the
\* time have it on find only
SoftRev(rev) == rev # "hardDelete"

\* Whether the model's hook adds isDeleted: { $ne: true } to a findOne,
\* findById or findOneAndUpdate query
HookLive(rev, kind) ==
    \/ rev = "softDelete"
    \/ rev = "softDeleteFindHook" /\ kind \in {"Video", "Comment"}

\* Model.findById(id) finds a document: the ids of the documents of the
\* kind that are stored and that the model's hook does not hide
StoredIds(kind) ==
    {d.id : d \in {e \in docs : /\ e.kind = kind
                                /\ HookLive(ownRev, kind) => ~e.isDeleted}}

\* ----------------------------------------------------------- conversions
\* String.prototype.toLowerCase on the :type route parameter
ToLowerCase(s) ==
    CASE s = "Video" -> "video"
      [] s = "Post" -> "post"
      [] s = "Comment" -> "comment"
      [] OTHER -> s

Max(a, b) == IF a >= b THEN a ELSE b

\* ------------------------------------------------------------ Like model
\* findByIdAndUpdate(id, { $inc: { likesCount: d } }); no document, no change
IncLikes(counts, id, d) ==
    IF id \in DOMAIN counts THEN [counts EXCEPT ![id] = @ + d] ELSE counts

\* findByIdAndUpdate(id, { likesCount: n }); no document, no change
SetLikes(counts, id, n) ==
    IF id \in DOMAIN counts THEN [counts EXCEPT ![id] = n] ELSE counts

\* enum: ['Comment', 'Video', 'Post'] on Like.type (validated on save)
LikeTypeEnum == {"Comment", "Video", "Post"}

\* The document Like.create is given: { type, [field]: targetId, likedBy }
LikeDoc(oid, type, field, id, user) ==
    [_id |-> oid, type |-> type,
     video |-> IF field = "video" THEN id ELSE NoId,
     post |-> IF field = "post" THEN id ELSE NoId,
     comment |-> IF field = "comment" THEN id ELSE NoId,
     likedBy |-> user, isDeleted |-> FALSE, isNew |-> TRUE]

\* Faulty variant of LikeUniqueOk: the unique indexes are not there
LikeUniqueOkNoIndex(doc, rows) == TRUE

\* The three unique sparse indexes {likedBy, comment}, {likedBy, video},
\* {likedBy, post}.  A sparse compound index holds every document that has
\* at least one of its keys; likedBy is required, so every row is in all
\* three, with null for the target fields it lacks.
LikeUniqueOk(doc, rows) ==
    \A e \in rows :
        e.likedBy = doc.likedBy =>
            /\ e.comment # doc.comment
            /\ e.video # doc.video
            /\ e.post # doc.post

\* Outcome of Like.create(doc): "ok", or the error save() rejects with
LikeCreateResult(doc, rows) ==
    IF doc.type \notin LikeTypeEnum THEN "ValidationError"
    ELSE IF ~LikeUniqueOk(doc, rows) THEN "E11000"
    ELSE "ok"

\* save() clears isNew once the insert is sent, before post('save') runs
SavedDoc(doc) == [doc EXCEPT !.isNew = FALSE]

\* likeSchema.post('save'): $inc likesCount of the target when doc.isNew
\* (part_040: and not isDeleted)
LikePostSave(doc, counts) ==
    LET targetId == IF doc.video # NoId THEN doc.video
                    ELSE IF doc.post # NoId THEN doc.post ELSE doc.comment
    IN IF doc.isNew /\ ~doc.isDeleted /\ doc.type \in LikeTypeEnum
       THEN IncLikes(counts, targetId, 1)
       ELSE counts

\* The row as stored (isNew is a property of the in-memory document only)
StoredLike(doc) ==
    [_id |-> doc._id, type |-> doc.type, video |-> doc.video,
     post |-> doc.post, comment |-> doc.comment, likedBy |-> doc.likedBy,
     isDeleted |-> doc.isDeleted]

LikeField(row, field) ==
    CASE field = "video" -> row.video
      [] field = "post" -> row.post
      [] field = "comment" -> row.comment
      [] OTHER -> NoId

\* Like.findOne({ type, [field]: targetId, likedBy, (isDeleted: {$ne: true}) }):
\* the _id of the first matching row in insertion order, 0 when there is none
LikeFindOne(rows, type, field, id, user, liveOnly) ==
    LET hits == {e \in rows : /\ e.type = type
                              /\ LikeField(e, field) = id
                              /\ e.likedBy = user
                              /\ (liveOnly => ~e.isDeleted)}
    IN IF hits = {} THEN 0
       ELSE CHOOSE i \in {e._id : e \in hits} :
                \A j \in {e._id : e \in hits} : i <= j

\* Like.deleteOne({ _id }) as a query: removes the row, runs no document hook
LikeDeleteOne(rows, oid) == {e \in rows : e._id # oid}

\* Like.findByIdAndUpdate(_id, { isDeleted: true, deletedAt }) behind the
\* pre('findOneAndUpdate') filter isDeleted != true
LikeSoftDelete(rows, oid) ==
    {IF e._id = oid /\ ~e.isDeleted THEN [e EXCEPT !.isDeleted = TRUE] ELSE e
        : e \in rows}

\* -------------------------------------------------------- toggleLike
\* The :type values a revision accepts
LikeTypeValid(rev, type) ==
    IF rev = "like.controller"
    THEN ToLowerCase(type) \in {"video", "post", "comment"}
    ELSE type \in {"Video", "Post", "Comment"}

\* targetModel: the ids of the collection the switch picks
LikeTargetModel(rev, type) ==
    LET t == IF rev = "like.controller" THEN ToLowerCase(type) ELSE type
    IN CASE t \in {"video", "Video"} -> StoredIds("Video")
         [] t \in {"post", "Post"} -> StoredIds("Post")
         [] t \in {"comment", "Comment"} -> StoredIds("Comment")
         [] OTHER -> {}

\* Faulty variant of LikeTargetFound: the handler never takes the 404 branch
LikeTargetFoundAlways(rev, type, id) == TRUE

\* if (!target): whether findById found the target in that collection
LikeTargetFound(rev, type, id) == id \in LikeTargetModel(rev, type)

\* likesCount++ of the like branch
LikeAfterLike(n) == n + 1

\* The type the handler stores and queries by
LikeStoredType(rev, type) ==
    IF rev = "like.controller" THEN ToLowerCase(type) ELSE type

\* The target field the handler writes: targetField / type.toLowerCase()
LikeTargetField(type) == ToLowerCase(type)

\* Whether the revision's findOne asks for isDeleted != true
LikeSoftRev(rev) == rev # "like.controller"

\* Faulty variant of LikeAfterUnlike: the unlike branch forgets the decrement
LikeAfterUnlikeNoDec(rev, n) == n

\* The local likesCount after the unlike branch
LikeAfterUnlike(rev, n) ==
    IF rev = "like.controller" THEN Max(0, n - 1) ELSE n - 1

RowTarget(e) ==
    IF e.video # NoId THEN e.video
    ELSE IF e.post # NoId THEN e.post ELSE e.comment

ActiveLikes(rows, id) == {e \in rows : RowTarget(e) = id /\ ~e.isDeleted}

IsLikedBy(rows, user, id) == \E e \in ActiveLikes(rows, id) : e.likedBy = user

StoredCount(counts, id) == IF id \in DOMAIN counts THEN counts[id] ELSE 0

Snapshot(rows, counts, user, id) ==
    [count |-> StoredCount(counts, id), active |-> IsLikedBy(rows, user, id)]

Slots == 1..MaxInFlight

InFlight(reqs) == {i \in Slots : reqs[i].pc # "idle"}

Quiet(reqs) == InFlight(reqs) = {}

\* A new request takes the lowest free slot
FreeSlot(reqs, r) ==
    /\ r \in Slots
    /\ reqs[r].pc = "idle"
    /\ \A i \in Slots : i < r => reqs[i].pc # "idle"
    /\ issued < MaxReqs
    /\ Cardinality(InFlight(reqs)) < (IF serial THEN 1 ELSE MaxInFlight)

IdleLike ==
    [user |-> NoId, type |-> NoId, id |-> NoId, oid |-> 0, pc |-> "idle",
     status |-> 0, target |-> 0, existing |-> 0, liked |-> FALSE,
     likesCount |-> 0, rowOp |-> "na", incOp |-> "na", writes |-> 0,
     pre |-> [count |-> 0, active |-> FALSE],
     post |-> [count |-> 0, active |-> FALSE]]

\* A request that has answered: its status, and the state it left behind
LikeDone(q, status, rows, counts) ==
    [q EXCEPT !.pc = "done", !.status = status,
              !.post = Snapshot(rows, counts, q.user, q.id)]

\* The slot after a step: an answered request leaves it
LikeSlot(r, q) ==
    IF q.pc = "done"
    THEN /\ likeReqs' = [likeReqs EXCEPT ![r] = IdleLike]
         /\ likeDone' = Append(likeDone, q)
    ELSE /\ likeReqs' = [likeReqs EXCEPT ![r] = q]
         /\ likeDone' = likeDone

LikeStart(r, user, type, id) ==
    /\ likeRev \in LikeRevs
    /\ FreeSlot(likeReqs, r)
    /\ likeRev = "part_014" => type = "Video"
    /\ LET q == [IdleLike EXCEPT
                    !.user = user, !.type = type, !.id = id,
                    !.oid = issued + 1, !.pc = "findTarget",
                    !.pre = Snapshot(likes, likesCount, user, id),
                    !.post = Snapshot(likes, likesCount, user, id)]
       IN LikeSlot(r, IF LikeTypeValid(likeRev, type) THEN q
                      ELSE LikeDone(q, 400, likes, likesCount))
    /\ issued' = issued + 1
    /\ UNCHANGED <<likeFrame, likeRev, likes, likesCount>>

\* const target = await targetModel.findById(targetId)
LikeFindTarget(r) ==
    /\ r \in Slots
    /\ likeReqs[r].pc = "findTarget"
    /\ LET q == likeReqs[r]
       IN LikeSlot(r,
              IF LikeTargetFound(likeRev, q.type, q.id)
              THEN [q EXCEPT !.pc = "findLike",
                             !.target = StoredCount(likesCount, q.id)]
              ELSE LikeDone(q, 404, likes, likesCount))
    /\ UNCHANGED <<likeFrame, issued, likeRev, likes, likesCount>>

\* const existingLike = await Like.findOne({...})
LikeFindExisting(r) ==
    /\ r \in Slots
    /\ likeReqs[r].pc = "findLike"
    /\ LET q == likeReqs[r]
           found == LikeFindOne(likes, LikeStoredType(likeRev, q.type),
                                LikeTargetField(q.type), q.id, q.user,
                                LikeSoftRev(likeRev))
       IN LikeSlot(r,
              [q EXCEPT !.pc = "mutate", !.existing = found,
                        !.likesCount = q.target, !.rowOp = "todo",
                        !.incOp = IF likeRev = "part_014" THEN "todo"
                                  ELSE "na"])
    /\ UNCHANGED <<likeFrame, issued, likeRev, likes, likesCount>>

\* part_014 ends when both operations of its Promise.all have settled
LikeSettled(q, rows, counts) ==
    IF q.rowOp \in {"done", "err"} /\ q.incOp = "done"
    THEN LikeDone([q EXCEPT !.liked = (q.existing = 0 /\ q.rowOp = "done"),
                            !.likesCount = IF q.existing = 0
                                           THEN LikeAfterLike(q.target)
                                           ELSE LikeAfterUnlike(likeRev,
                                                                q.target)],
                  IF q.rowOp = "err" THEN 500 ELSE 200, rows, counts)
    ELSE q

\* The Like row operation of either branch: deleteOne / soft delete / create
LikeRowOp(r) ==
    /\ r \in Slots
    /\ likeReqs[r].pc = "mutate"
    /\ likeReqs[r].rowOp = "todo"
    /\ LET q == likeReqs[r]
           doc == LikeDoc(q.oid, LikeStoredType(likeRev, q.type),
                          LikeTargetField(q.type), q.id, q.user)
           res == LikeCreateResult(doc, likes)
           rows == IF q.existing # 0
                   THEN IF likeRev = "like.controller"
                        THEN LikeDeleteOne(likes, q.existing)
                        ELSE LikeSoftDelete(likes, q.existing)
                   ELSE IF res = "ok" THEN likes \cup {StoredLike(doc)}
                        ELSE likes
           counts == IF q.existing = 0 /\ res = "ok"
                     THEN LikePostSave(SavedDoc(doc), likesCount)
                     ELSE likesCount
           ok == q.existing # 0 \/ res = "ok"
           w == IF rows # likes \/ counts # likesCount THEN 1 ELSE 0
           q1 == [q EXCEPT !.rowOp = IF ok THEN "done" ELSE "err",
                           !.writes = @ + w]
       IN /\ likes' = rows
          /\ likesCount' = counts
          /\ LikeSlot(r,
                IF likeRev = "part_014" THEN LikeSettled(q1, rows, counts)
                ELSE IF ~ok THEN LikeDone(q1, 500, rows, counts)
                ELSE [q1 EXCEPT
                        !.pc = "write",
                        !.liked = (q.existing = 0),
                        !.likesCount = IF q.existing = 0
                                       THEN LikeAfterLike(q.likesCount)
                                       ELSE LikeAfterUnlike(likeRev,
                                                            q.likesCount)])
    /\ UNCHANGED <<likeFrame, issued, likeRev>>

\* part_014: Video.findByIdAndUpdate(videoObjectId, { $inc: { likesCount: +-1 } })
LikeIncOp(r) ==
    /\ r \in Slots
    /\ likeReqs[r].pc = "mutate"
    /\ likeReqs[r].incOp = "todo"
    /\ LET q == likeReqs[r]
           counts == IncLikes(likesCount, q.id,
                              IF q.existing = 0 THEN 1 ELSE -1)
           q1 == [q EXCEPT !.incOp = "done", !.writes = @ + 1]
       IN /\ likesCount' = counts
          /\ LikeSlot(r, LikeSettled(q1, likes, counts))
    /\ UNCHANGED <<likeFrame, issued, likeRev, likes>>

\* await targetModel.findByIdAndUpdate(targetId, { likesCount }); respond 200
LikeWriteCount(r) ==
    /\ r \in Slots
    /\ likeReqs[r].pc = "write"
    /\ LET q == likeReqs[r]
           counts == SetLikes(likesCount, q.id, q.likesCount)
       IN /\ likesCount' = counts
          /\ LikeSlot(r,
                LikeDone([q EXCEPT !.writes = @ + 1], 200, likes, counts))
    /\ UNCHANGED <<likeFrame, issued, likeRev, likes>>

\* ------------------------------------------------------ Subscription model
\* The three revisions of the Subscription model.  part_039 (hard delete) is
\* deployed with the controller revision that deletes rows and refuses
\* self-subscription; the other two (isDeleted flag) with the revision that
\* soft-deletes.
SubRevs == {"part_038", "subscription.model", "part_039"}

\* the (operation, channelId) pairs requests are made with; u9 names no user
SubParams == {<<"subscribe", "B">>, <<"unsubscribe", "B">>, <<"toggle", "B">>,
              <<"subscribe", "u9">>, <<"toggle", "u9">>}

SubHardRev(rev) == rev = "part_039"

\* The document Subscription.create is given: { subscriber, channel }
SubDoc(oid, user, channel) ==
    [_id |-> oid, subscriber |-> user, channel |-> channel, isDeleted |-> FALSE]

\* subscriptionSchema.index({ subscriber: 1, channel: 1 }, { unique: true })
SubUniqueOk(doc, rows) ==
    \A e \in rows :
        ~(e.subscriber = doc.subscriber /\ e.channel = doc.channel)

\* Outcome of Subscription.create(doc)
SubCreateResult(doc, rows) == IF SubUniqueOk(doc, rows) THEN "ok" ELSE "E11000"

\* User.findByIdAndUpdate(id, { $inc: { subscribersCount: d } })
IncSubscribers(counts, id, d) ==
    IF id \in DOMAIN counts THEN [counts EXCEPT ![id] = @ + d] ELSE counts

\* Whether the model revision registers a post('save') hook
SubHasPostSave(rev) == rev # "part_038"

\* subscriptionSchema.post('save'): $inc subscribersCount of doc.channel
\* (subscription.model.ts: unless doc.isDeleted)
SubPostSaveHook(rev, doc, counts) ==
    IF rev = "subscription.model" /\ doc.isDeleted THEN counts
    ELSE IncSubscribers(counts, doc.channel, 1)

\* Subscription.findOne({ subscriber, channel, (isDeleted: {$ne: true}) })
SubFindOneOfAnyone(rows, user, channel, liveOnly) ==
    LET hits == {e \in rows : /\ e.channel = channel
                              /\ (liveOnly => ~e.isDeleted)}
    IN IF hits = {} THEN 0
       ELSE CHOOSE i \in {e._id : e \in hits} :
                \A j \in {e._id : e \in hits} : i <= j

SubFindOne(rows, user, channel, liveOnly) ==
    LET hits == {e \in rows : /\ e.subscriber = user
                              /\ e.channel = channel
                              /\ (liveOnly => ~e.isDeleted)}
    IN IF hits = {} THEN 0
       ELSE CHOOSE i \in {e._id : e \in hits} :
                \A j \in {e._id : e \in hits} : i <= j

\* findByIdAndDelete / findOneAndDelete (part_039 controller), or the update
\* { isDeleted: true, deletedAt } of the soft-deleting controller
SubRemoveNothing(rev, rows, oid) == rows

SubRemove(rev, rows, oid) ==
    IF SubHardRev(rev) THEN {e \in rows : e._id # oid}
    ELSE {IF e._id = oid THEN [e EXCEPT !.isDeleted = TRUE] ELSE e : e \in rows}

ActiveSubs(rows, channel) == {e \in rows : e.channel = channel /\ ~e.isDeleted}

IsSubscribedTo(rows, user, channel) ==
    \E e \in ActiveSubs(rows, channel) : e.subscriber = user

SubSnapshot(rows, counts, user, channel) ==
    [count |-> StoredCount(counts, channel),
     active |-> IsSubscribedTo(rows, user, channel)]

IdleSub ==
    [op |-> NoId, user |-> NoId, channel |-> NoId, oid |-> 0, pc |-> "idle",
     status |-> 0, existing |-> 0, rowOp |-> "na", incOp |-> "na",
     isSubscribed |-> FALSE, writes |-> 0,
     pre |-> [count |-> 0, active |-> FALSE],
     post |-> [count |-> 0, active |-> FALSE]]

SubDone(q, status, rows, counts) ==
    [q EXCEPT !.pc = "done", !.status = status,
              !.post = SubSnapshot(rows, counts, q.user, q.channel)]

\* The slot after a step: an answered request leaves it
SubSlot(r, q) ==
    IF q.pc = "done"
    THEN /\ subReqs' = [subReqs EXCEPT ![r] = IdleSub]
         /\ subDone' = Append(subDone, q)
    ELSE /\ subReqs' = [subReqs EXCEPT ![r] = q]
         /\ subDone' = subDone

\* ------------------------------------- subscribe / unsubscribe / toggle
\* Entry of the three handlers: the self-subscription check of part_039's
\* controller in subscribe and toggleSubscription
SubStart(r, op, user, channel) ==
    /\ subRev \in SubRevs
    /\ FreeSlot(subReqs, r)
    /\ LET q == [IdleSub EXCEPT
                    !.op = op, !.user = user, !.channel = channel,
                    !.oid = issued + 1,
                    !.pc = IF op = "unsubscribe" THEN "findAndRemove"
                           ELSE "findSub",
                    !.pre = SubSnapshot(subs, subscribersCount, user, channel),
                    !.post = SubSnapshot(subs, subscribersCount, user, channel)]
       IN SubSlot(r, IF SubHardRev(subRev) /\ op # "unsubscribe"
                        /\ channel = user
                     THEN SubDone(q, 400, subs, subscribersCount)
                     ELSE q)
    /\ issued' = issued + 1
    /\ UNCHANGED <<subFrame, subRev, subs, subscribersCount>>

\* const existingSubscription = await Subscription.findOne({...})
SubFindExisting(r) ==
    /\ r \in Slots
    /\ subReqs[r].pc = "findSub"
    /\ LET q == subReqs[r]
           found == SubFindOne(subs, q.user, q.channel, ~SubHardRev(subRev))
       IN SubSlot(r,
              IF q.op = "subscribe" /\ found # 0
              THEN SubDone(q, 400, subs, subscribersCount)
              ELSE [q EXCEPT !.pc = "findChannel", !.existing = found])
    /\ UNCHANGED <<subFrame, issued, subRev, subs, subscribersCount>>

\* if (!channel): whether User.findById found the channel
ChannelFound(channel) == channel \in Users

\* const channel = await User.findById(channelObjectId), and the branch taken
SubFindChannel(r) ==
    /\ r \in Slots
    /\ subReqs[r].pc = "findChannel"
    /\ LET q == subReqs[r]
           found == ChannelFound(q.channel)
       IN SubSlot(r,
              IF q.existing = 0 /\ ~found
              THEN SubDone(q, 404, subs, subscribersCount)
              ELSE [q EXCEPT !.pc = "mutate", !.rowOp = "todo",
                             !.incOp = "todo"])
    /\ UNCHANGED <<subFrame, issued, subRev, subs, subscribersCount>>

\* The handler answers when both operations of its Promise.all have settled
SubSettled(q, rows, counts) ==
    IF q.rowOp \in {"done", "err"} /\ q.incOp = "done"
    THEN SubDone([q EXCEPT !.isSubscribed = (q.existing = 0 /\ q.rowOp = "done")],
                 IF q.rowOp = "err" THEN 500
                 ELSE IF q.op = "subscribe" THEN 201 ELSE 200,
                 rows, counts)
    ELSE q

\* Promise.all, first operation: Subscription.create, or the removal of the
\* row found
SubRowOp(r) ==
    /\ r \in Slots
    /\ subReqs[r].pc = "mutate"
    /\ subReqs[r].rowOp = "todo"
    /\ LET q == subReqs[r]
           doc == SubDoc(q.oid, q.user, q.channel)
           res == SubCreateResult(doc, subs)
           rows == IF q.existing # 0 THEN SubRemove(subRev, subs, q.existing)
                   ELSE IF res = "ok" THEN subs \cup {doc} ELSE subs
           q1 == [q EXCEPT
                    !.rowOp = IF q.existing # 0 THEN "done"
                              ELSE IF res # "ok" THEN "err"
                              ELSE IF SubHasPostSave(subRev) THEN "hook"
                              ELSE "done",
                    !.writes = @ + (IF rows # subs THEN 1 ELSE 0)]
       IN /\ subs' = rows
          /\ SubSlot(r,
                SubSettled(q1, rows, subscribersCount))
    /\ UNCHANGED <<subFrame, issued, subRev, subscribersCount>>

\* subscriptionSchema.post('save') of the row just inserted
SubPostSave(r) ==
    /\ r \in Slots
    /\ subReqs[r].pc = "mutate"
    /\ subReqs[r].rowOp = "hook"
    /\ LET q == subReqs[r]
           counts == SubPostSaveHook(subRev, SubDoc(q.oid, q.user, q.channel),
                                     subscribersCount)
           q1 == [q EXCEPT !.rowOp = "done",
                           !.writes = @ + (IF counts # subscribersCount
                                           THEN 1 ELSE 0)]
       IN /\ subscribersCount' = counts
          /\ SubSlot(r, SubSettled(q1, subs, counts))
    /\ UNCHANGED <<subFrame, issued, subRev, subs>>

\* Promise.all, second operation: User.findByIdAndUpdate(channelObjectId,
\* { $inc: { subscribersCount: +-1 } })
SubIncOp(r) ==
    /\ r \in Slots
    /\ subReqs[r].pc = "mutate"
    /\ subReqs[r].incOp = "todo"
    /\ LET q == subReqs[r]
           counts == IncSubscribers(subscribersCount, q.channel,
                                    IF q.existing = 0 THEN 1 ELSE -1)
           q1 == [q EXCEPT !.incOp = "done",
                           !.writes = @ + (IF counts # subscribersCount
                                           THEN 1 ELSE 0)]
       IN /\ subscribersCount' = counts
          /\ SubSlot(r, SubSettled(q1, subs, counts))
    /\ UNCHANGED <<subFrame, issued, subRev, subs>>

\* unsubscribe: Subscription.findOneAndDelete / findOneAndUpdate, one atomic
\* operation; 404 when it finds nothing
UnsubFindAndRemove(r) ==
    /\ r \in Slots
    /\ subReqs[r].pc = "findAndRemove"
    /\ LET q == subReqs[r]
           found == SubFindOne(subs, q.user, q.channel, ~SubHardRev(subRev))
           rows == IF found = 0 THEN subs ELSE SubRemove(subRev, subs, found)
       IN /\ subs' = rows
          /\ SubSlot(r,
                IF found = 0 THEN SubDone(q, 404, subs, subscribersCount)
                ELSE [q EXCEPT !.pc = "dec", !.existing = found,
                               !.writes = @ + 1])
    /\ UNCHANGED <<subFrame, issued, subRev, subscribersCount>>

\* unsubscribe: User.findByIdAndUpdate(channelObjectId,
\* { $inc: { subscribersCount: -1 } }); respond 200
UnsubDec(r) ==
    /\ r \in Slots
    /\ subReqs[r].pc = "dec"
    /\ LET q == subReqs[r]
           counts == IncSubscribers(subscribersCount, q.channel, -1)
       IN /\ subscribersCount' = counts
          /\ SubSlot(r,
                SubDone([q EXCEPT !.writes = @ + 1], 200, subs, counts))
    /\ UNCHANGED <<subFrame, issued, subRev, subs>>

\* ------------------------------------------- what earlier requests left
\* active: the like / subscription is in place; inactive: it was taken back
Phases == {"active", "inactive"}

\* The row A's earlier toggleLike of v1 created
PriorLikeDoc(rev) ==
    LikeDoc(MaxReqs + 1, LikeStoredType(rev, "Video"), LikeTargetField("Video"),
            "v1", "A")

\* The Like collection after A's toggleLike of v1 (active) and after A's
\* second toggleLike (inactive); nothing where the create is refused
PriorLikes(rev, phase) ==
    LET doc == PriorLikeDoc(rev)
        rows == {StoredLike(doc)}
    IN IF LikeCreateResult(doc, {}) # "ok" THEN {}
       ELSE IF phase = "active" THEN rows
       ELSE IF rev = "like.controller" THEN LikeDeleteOne(rows, doc._id)
       ELSE LikeSoftDelete(rows, doc._id)

\* likesCount after the same toggles
PriorLikesCount(rev, phase) ==
    LET doc == PriorLikeDoc(rev)
        zero == [t \in TargetIds |-> 0]
        liked == SetLikes(zero, "v1", LikeAfterLike(0))
    IN IF LikeCreateResult(doc, {}) # "ok" THEN zero
       ELSE IF phase = "active" THEN liked
       ELSE SetLikes(liked, "v1", LikeAfterUnlike(rev, liked["v1"]))

\* The row A's earlier subscribe to B created
PriorSubDoc == SubDoc(MaxReqs + 1, "A", "B")

\* The Subscription collection after A's subscribe to B (active) and after
\* A's unsubscribe (inactive)
PriorSubs(rev, phase) ==
    IF phase = "active" THEN {PriorSubDoc}
    ELSE SubRemove(rev, {PriorSubDoc}, PriorSubDoc._id)

\* subscribersCount after the same requests: the post('save') hook where the
\* model has one, and the handler's own $inc
PriorSubscribersCount(rev, phase) ==
    LET zero == [u \in Users |-> 0]
        hooked == IF SubHasPostSave(rev)
                  THEN SubPostSaveHook(rev, PriorSubDoc, zero) ELSE zero
        subscribed == IncSubscribers(hooked, "B", 1)
    IN IF phase = "active" THEN subscribed
       ELSE IncSubscribers(subscribed, "B", -1)

\* ------------------------------------------------------------- View model
\* The two revisions of the view-logging handlers: view.controller.ts with
\* getVideoById of video.controller.ts (View.create and $inc views in one
\* Promise.all), and part_018 with getVideoById of part_014 (View.create only)
ViewRevs == {"view.controller", "part_018"}

\* req.ip of the requests
Ips == {"ip1", "ip2"}

\* the (handler, videoId) pairs requests are made with; v9 names no video
ViewParams == {<<"logView", "v1">>, <<"getVideoById", "v1">>,
               <<"logView", "v9">>}

\* req.user as the handler sees it: the routes of logView and getVideoById
\* run no verifyToken, so nothing sets req.user, whoever holds the token
ViewRequestUser(user) == NoId

\* The document View.create is given: { video, viewer?, ipAddress? }
ViewDoc(oid, video, viewer, ip) ==
    [_id |-> oid, video |-> video, viewer |-> viewer, ipAddress |-> ip,
     isDeleted |-> FALSE, isNew |-> TRUE]

\* The row as stored
StoredView(doc) ==
    [_id |-> doc._id, video |-> doc.video, viewer |-> doc.viewer,
     ipAddress |-> doc.ipAddress]

\* The unique sparse indexes {video, viewer} and {video, ipAddress}.  video
\* is required, so every row is in both, with null for a field it lacks.
ViewUniqueOk(doc, rows) ==
    \A e \in rows :
        e.video = doc.video =>
            /\ e.viewer # doc.viewer
            /\ e.ipAddress # doc.ipAddress

\* Outcome of View.create(doc)
ViewCreateResult(doc, rows) == IF ViewUniqueOk(doc, rows) THEN "ok" ELSE "E11000"

\* Video.findByIdAndUpdate(id, { $inc: { views: d } }); no document, no change
IncViews(counts, id, d) ==
    IF id \in DOMAIN counts THEN [counts EXCEPT ![id] = @ + d] ELSE counts

\* viewSchema.post('save'): $inc views of doc.video when doc.isNew
ViewPostSave(doc, counts) ==
    IF doc.isNew /\ ~doc.isDeleted THEN IncViews(counts, doc.video, 1)
    ELSE counts

\* viewKey: { video, viewer } when the handler has a user, { video, ipAddress }
\* otherwise; View.findOne(viewKey): the _id of the first hit, 0 for none
ViewFindOne(rows, video, viewer, ip) ==
    LET hits == {e \in rows : /\ e.video = video
                              /\ IF viewer # NoId THEN e.viewer = viewer
                                 ELSE e.ipAddress = ip}
    IN IF hits = {} THEN 0
       ELSE CHOOSE i \in {e._id : e \in hits} :
                \A j \in {e._id : e \in hits} : i <= j

\* Video.findOne({ _id, isPublished: true }) / Video.findById: every video
\* of the model is published
VideoFound(video) == video \in StoredIds("Video")

ViewsOf(rows, video) == {e \in rows : e.video = video}

ViewSnapshot(rows, counts, video) ==
    [count |-> StoredCount(counts, video),
     rows |-> Cardinality(ViewsOf(rows, video))]

IdleView ==
    [op |-> NoId, user |-> NoId, reqUser |-> NoId, ip |-> NoId,
     video |-> NoId, oid |-> 0, pc |-> "idle", status |-> 0, existing |-> 0,
     rowOp |-> "na", incOp |-> "na", writes |-> 0,
     pre |-> [count |-> 0, rows |-> 0], post |-> [count |-> 0, rows |-> 0]]

ViewDone(q, status, rows, counts) ==
    [q EXCEPT !.pc = "done", !.status = status,
              !.post = ViewSnapshot(rows, counts, q.video)]

\* The slot after a step: an answered request leaves it
ViewSlot(r, q) ==
    IF q.pc = "done"
    THEN /\ viewReqs' = [viewReqs EXCEPT ![r] = IdleView]
         /\ viewDone' = Append(viewDone, q)
    ELSE /\ viewReqs' = [viewReqs EXCEPT ![r] = q]
         /\ viewDone' = viewDone

\* ------------------------------------------------- logView / getVideoById
\* Entry of the handlers; logView of part_018 does not look the video up
ViewStart(r, op, user, ip, video) ==
    /\ viewRev \in ViewRevs
    /\ FreeSlot(viewReqs, r)
    /\ LET q == [IdleView EXCEPT
                    !.op = op, !.user = user,
                    !.reqUser = ViewRequestUser(user), !.ip = ip,
                    !.video = video, !.oid = issued + 1,
                    !.pc = IF viewRev = "part_018" /\ op = "logView"
                           THEN "findView" ELSE "findVideo",
                    !.pre = ViewSnapshot(views, viewsCount, video),
                    !.post = ViewSnapshot(views, viewsCount, video)]
       IN ViewSlot(r, q)
    /\ issued' = issued + 1
    /\ UNCHANGED <<viewFrame, viewRev, views, viewsCount>>

\* const video = await Video.findOne / findById; 404 when there is none
ViewFindVideo(r) ==
    /\ r \in Slots
    /\ viewReqs[r].pc = "findVideo"
    /\ LET q == viewReqs[r]
       IN ViewSlot(r, IF VideoFound(q.video) THEN [q EXCEPT !.pc = "findView"]
                      ELSE ViewDone(q, 404, views, viewsCount))
    /\ UNCHANGED <<viewFrame, issued, viewRev, views, viewsCount>>

\* const existingView = await View.findOne(viewKey); 200 when there is one
ViewFindExisting(r) ==
    /\ r \in Slots
    /\ viewReqs[r].pc = "findView"
    /\ LET q == viewReqs[r]
           found == ViewFindOne(views, q.video, q.reqUser, q.ip)
       IN ViewSlot(r,
              IF found # 0
              THEN ViewDone([q EXCEPT !.existing = found], 200, views,
                            viewsCount)
              ELSE [q EXCEPT !.pc = "mutate", !.rowOp = "todo",
                             !.incOp = IF viewRev = "view.controller"
                                       THEN "todo" ELSE "na"])
    /\ UNCHANGED <<viewFrame, issued, viewRev, views, viewsCount>>

\* The handler answers when its operations have settled: 500 when the create
\* was rejected, else 201 (logView) or 200 (getVideoById)
ViewSettled(q, rows, counts) ==
    IF q.rowOp \in {"done", "err"} /\ q.incOp \in {"done", "na"}
    THEN ViewDone(q, IF q.rowOp = "err" THEN 500
                     ELSE IF q.op = "logView" THEN 201 ELSE 200,
                  rows, counts)
    ELSE q

\* View.create({ video, viewer?, ipAddress? }) and its post('save') hook
ViewRowOp(r) ==
    /\ r \in Slots
    /\ viewReqs[r].pc = "mutate"
    /\ viewReqs[r].rowOp = "todo"
    /\ LET q == viewReqs[r]
           doc == ViewDoc(q.oid, q.video, q.reqUser, q.ip)
           res == ViewCreateResult(doc, views)
           rows == IF res = "ok" THEN views \cup {StoredView(doc)} ELSE views
           counts == IF res = "ok" THEN ViewPostSave(SavedDoc(doc), viewsCount)
                     ELSE viewsCount
           q1 == [q EXCEPT !.rowOp = IF res = "ok" THEN "done" ELSE "err",
                           !.writes = @ + (IF rows # views \/ counts # viewsCount
                                           THEN 1 ELSE 0)]
       IN /\ views' = rows
          /\ viewsCount' = counts
          /\ ViewSlot(r, ViewSettled(q1, rows, counts))
    /\ UNCHANGED <<viewFrame, issued, viewRev>>

\* Video.findByIdAndUpdate(videoObjectId, { $inc: { views: 1 } })
ViewIncOp(r) ==
    /\ r \in Slots
    /\ viewReqs[r].pc = "mutate"
    /\ viewReqs[r].incOp = "todo"
    /\ LET q == viewReqs[r]
           counts == IncViews(viewsCount, q.video, 1)
           q1 == [q EXCEPT !.incOp = "done",
                           !.writes = @ + (IF counts # viewsCount THEN 1 ELSE 0)]
       IN /\ viewsCount' = counts
          /\ ViewSlot(r, ViewSettled(q1, views, counts))
    /\ UNCHANGED <<viewFrame, issued, viewRev, views>>

\* ---------------------------------------------------------- watch history
\* $slice: 100 of addToWatchHistory
HistoryCap == 100

\* the (handler, videoId) pairs requests are made with; v9 names no video
HistParams == {<<"add", "v1">>, <<"add", "v9">>, <<"remove", "v1">>,
               <<"remove", "v9">>, <<"clear", NoId>>,
               <<"add", "v2">>, <<"add", "v3">>}

\* The Video documents the watch-history handlers look up: v1 of A, the
\* unpublished v2 and the subscribers-only v3 of B
Catalogue ==
    [v \in {"v1", "v2", "v3"} |->
        [owner |-> IF v = "v1" THEN "A" ELSE "B",
         isPublished |-> v # "v2",
         subscribersOnly |-> v = "v3"]]

\* The watchHistory arrays a User document may hold: videos of the
\* catalogue, none of them twice
StoredHistories ==
    {list \in UNION {[1..n -> DOMAIN Catalogue] : n \in 0..MaxHistory} :
        \A i, j \in 1..Len(list) : i # j => list[i] # list[j]}

\* Video.findById(videoObjectId) of removeFromWatchHistory
FindVideo(video) == video \in DOMAIN Catalogue

\* Faulty variant of FindPublished: the filter isPublished: true is missing
FindPublishedOrNot(video) == FindVideo(video)

\* Video.findOne({ _id: videoObjectId, isPublished: true })
FindPublished(video) == FindVideo(video) /\ Catalogue[video].isPublished

\* Subscription.findOne({ subscriber: user._id, channel: video.owner })
IsSubscriber(rows, user, video) ==
    SubFindOne(rows, user, Catalogue[video].owner, TRUE) # 0

\* Faulty variant of Pull: the last entry goes, whatever it is
PullLast(list, v) ==
    IF list = <<>> THEN list ELSE SubSeq(list, 1, Len(list) - 1)

\* $pull: { watchHistory: v }
Pull(list, v) == SelectSeq(list, LAMBDA x : x # v)

\* $push: { watchHistory: { $each: [v], $position: 0 } }
PushFront(list, v) == <<v>> \o list

\* $slice: n of a $push
Slice(list, n) == IF Len(list) <= n THEN list ELSE SubSeq(list, 1, n)

\* The field paths the update of addToWatchHistory names: that of its $pull
\* and that of its $push
AddUpdatePaths == <<"watchHistory", "watchHistory">>

\* The server refuses an update whose operators name one path twice
\* ("Updating the path ... would create a conflict")
PathConflict(paths) ==
    \E i, j \in 1..Len(paths) : i < j /\ paths[i] = paths[j]

\* Faulty variant of AddUpdateResult: the update is a plain $push
AddUpdateResultPushOnly(list, v) == [ok |-> TRUE, list |-> PushFront(list, v)]

\* User.findByIdAndUpdate(user._id, { $pull: {...}, $push: {...} }): whether
\* the server applied it, and the list afterwards
AddUpdateResult(list, v) ==
    IF PathConflict(AddUpdatePaths) THEN [ok |-> FALSE, list |-> list]
    ELSE [ok |-> TRUE,
          list |-> Slice(PushFront(Pull(list, v), v), HistoryCap)]

IdleHist ==
    [op |-> NoId, user |-> NoId, video |-> NoId, pc |-> "idle",
     status |-> 0, pre |-> <<>>, post |-> <<>>]

HistDone(q, status, list) ==
    [q EXCEPT !.pc = "done", !.status = status, !.post = list]

\* The slot after a step: an answered request leaves it
HistSlot(r, q) ==
    IF q.pc = "done"
    THEN /\ histReqs' = [histReqs EXCEPT ![r] = IdleHist]
         /\ histDone' = Append(histDone, q)
    ELSE /\ histReqs' = [histReqs EXCEPT ![r] = q]
         /\ histDone' = histDone

\* Entry of addToWatchHistory, removeFromWatchHistory, clearWatchHistory
\* (behind verifyToken: user is the authenticated user)
HistStart(r, op, user, video) ==
    /\ FreeSlot(histReqs, r)
    /\ HistSlot(r, [IdleHist EXCEPT
                       !.op = op, !.user = user, !.video = video,
                       !.pc = IF op = "clear" THEN "update" ELSE "findVideo",
                       !.pre = watchHistory[user],
                       !.post = watchHistory[user]])
    /\ issued' = issued + 1
    /\ UNCHANGED <<histFrame, watchHistory>>

\* const video = await Video.findOne / findById; 404 when there is none
HistFindVideo(r) ==
    /\ r \in Slots
    /\ histReqs[r].pc = "findVideo"
    /\ LET q == histReqs[r]
           found == IF q.op = "add" THEN FindPublished(q.video)
                    ELSE FindVideo(q.video)
       IN HistSlot(r, IF ~found THEN HistDone(q, 404, watchHistory[q.user])
                      ELSE IF q.op = "add" /\ Catalogue[q.video].subscribersOnly
                      THEN [q EXCEPT !.pc = "findSub"]
                      ELSE [q EXCEPT !.pc = "update"])
    /\ UNCHANGED <<histFrame, issued, watchHistory>>

\* if (video.subscribersOnly): Subscription.findOne, 403 when there is none
HistFindSubscription(r) ==
    /\ r \in Slots
    /\ histReqs[r].pc = "findSub"
    /\ LET q == histReqs[r]
       IN HistSlot(r, IF IsSubscriber(subs, q.user, q.video)
                      THEN [q EXCEPT !.pc = "update"]
                      ELSE HistDone(q, 403, watchHistory[q.user]))
    /\ UNCHANGED <<histFrame, issued, watchHistory>>

\* await User.findByIdAndUpdate(user._id, ...) of the three handlers, and
\* the answer: 200, or 500 when the update was refused
HistUpdate(r) ==
    /\ r \in Slots
    /\ histReqs[r].pc = "update"
    /\ LET q == histReqs[r]
           old == watchHistory[q.user]
           res == CASE q.op = "add" -> AddUpdateResult(old, q.video)
                    [] q.op = "remove" -> [ok |-> TRUE,
                                           list |-> Pull(old, q.video)]
                    [] OTHER -> [ok |-> TRUE, list |-> <<>>]
       IN /\ watchHistory' = [watchHistory EXCEPT ![q.user] = res.list]
          /\ HistSlot(r, HistDone(q, IF res.ok THEN 200 ELSE 500, res.list))
    /\ UNCHANGED <<histFrame, issued>>

\* --------------------------------------------------------- owned resources
\* The update and delete handlers of videos, posts, playlists and comments,
\* in two revisions: one deletes documents, the other marks them isDeleted.
OwnRevs == {"hardDelete", "softDelete", "softDeleteFindHook"}

Kinds == {"Video", "Post", "Playlist", "Comment"}

Playlists == {"l1"}

\* the (operation, kind, :id) triples requests are made with; v9 names no
\* document
OwnParams ==
    {<<op, "Video", "v1">> : op \in {"update", "delete"}}
    \cup {<<op, "Post", "p1">> : op \in {"update", "delete"}}
    \cup {<<op, "Playlist", "l1">> : op \in {"update", "delete"}}
    \cup {<<op, "Comment", "c1">> : op \in {"update", "delete"}}
    \cup {<<"update", "Video", "v9">>, <<"delete", "Comment", "c2">>}
    \cup {<<"fetch", "Playlist", "l1">>, <<"publish", "Video", "v1">>}

OwnedDoc(kind, id, owner, parent) ==
    [kind |-> kind, id |-> id, owner |-> owner, content |-> "old",
     isDeleted |-> FALSE, isPublished |-> TRUE, parentComment |-> parent]

\* The documents created before the run: A's video, post, playlist and
\* comment, and B's reply to A's comment
SeedDocs ==
    {OwnedDoc("Video", "v1", "A", NoId), OwnedDoc("Post", "p1", "A", NoId),
     OwnedDoc("Playlist", "l1", "A", NoId),
     OwnedDoc("Comment", "c1", "A", NoId),
     OwnedDoc("Comment", "c2", "B", "c1")}

AnyOwner == "any"

\* A query filter { _id, owner, isDeleted: { $ne: true } }; live is also what
\* the soft-delete hooks of the models add to the queries they cover
Matches(d, f) ==
    /\ d.kind = f.kind
    /\ d.id = f.id
    /\ f.owner = AnyOwner \/ d.owner = f.owner
    /\ f.live => ~d.isDeleted

FindDocs(rows, f) == {d \in rows : Matches(d, f)}

\* Model.findByIdAndUpdate(id, ...) queries { _id: id }, and an object given
\* as id is cast to an ObjectId by taking its _id: the rest of it is dropped
ByIdFilter(rev, f) ==
    [f EXCEPT !.owner = AnyOwner, !.live = HookLive(rev, f.kind)]

\* The handlers that look the document up and write it in a second operation
TwoStep(rev, kind, op) ==
    \/ op = "update" /\ kind \in {"Video", "Playlist"}
    \/ op = "publish"
    \/ rev = "hardDelete" /\ op = "delete" /\ kind = "Comment"

\* The filter of the handler's first database operation
FirstFilter(rev, q) ==
    LET f == [kind |-> q.kind, id |-> q.id, owner |-> q.user,
              live |-> SoftRev(rev)]
    IN IF \/ SoftRev(rev) /\ q.kind = "Post" /\ q.op = "update"
          \/ q.op = "fetch"
       THEN ByIdFilter(rev, f)
       ELSE f

\* $set: { isPublished: newStatus } of togglePublishStatus
SetPublished(rows, f, newStatus) ==
    {IF Matches(d, f) THEN [d EXCEPT !.isPublished = newStatus] ELSE d :
         d \in rows}

UpdateDocs(rows, f, content) ==
    {IF Matches(d, f) THEN [d EXCEPT !.content = content] ELSE d : d \in rows}

SoftDeleteDocs(rows, f) ==
    {IF Matches(d, f) THEN [d EXCEPT !.isDeleted = TRUE] ELSE d : d \in rows}

RemoveDocs(rows, f) == {d \in rows : ~Matches(d, f)}

\* Comment.deleteMany({ $or: [{ _id }, { parentComment: _id }] })
RemoveThread(rows, id) ==
    {d \in rows : ~(d.kind = "Comment" /\ (d.id = id \/ d.parentComment = id))}

IdleOwn ==
    [op |-> NoId, user |-> NoId, kind |-> NoId, id |-> NoId, pc |-> "idle",
     status |-> 0, writes |-> 0, newStatus |-> FALSE, pre |-> {},
     post |-> {}, video |-> NoId, seen |-> <<>>, videoCount |-> 0,
     listPre |-> <<>>, listPost |-> <<>>]

OwnDone(q, status, rows) ==
    [q EXCEPT !.pc = "done", !.status = status, !.post = rows]

OwnSlot(r, q) ==
    IF q.pc = "done"
    THEN /\ ownReqs' = [ownReqs EXCEPT ![r] = IdleOwn]
         /\ ownDone' = Append(ownDone, q)
    ELSE /\ ownReqs' = [ownReqs EXCEPT ![r] = q]
         /\ ownDone' = ownDone

\* Entry of an update, delete or publish handler (behind verifyToken: user
\* is the authenticated user), or of getPlaylistById
OwnStart(r, op, user, kind, id) ==
    /\ FreeSlot(ownReqs, r)
    /\ op \in {"fetch", "publish"} => SoftRev(ownRev)
    /\ OwnSlot(r, [IdleOwn EXCEPT !.op = op, !.user = user, !.kind = kind,
                                  !.id = id, !.pc = "first",
                                  !.pre = docs, !.post = docs])
    /\ issued' = issued + 1
    /\ UNCHANGED <<ownFrame, ownRev, docs>>

\* The first database operation: findOne, findById, findOneAndUpdate,
\* findOneAndDelete or findByIdAndUpdate; 404 when it matches nothing
OwnFirst(r) ==
    /\ r \in Slots
    /\ ownReqs[r].pc = "first"
    /\ LET q == ownReqs[r]
           f == FirstFilter(ownRev, q)
           found == FindDocs(docs, f) # {}
           after == CASE ~found \/ TwoStep(ownRev, q.kind, q.op) -> docs
                      [] q.op = "fetch" -> docs
                      [] q.op = "update" -> UpdateDocs(docs, f, "new")
                      [] SoftRev(ownRev) -> SoftDeleteDocs(docs, f)
                      [] OTHER -> RemoveDocs(docs, f)
           wrote == [q EXCEPT !.writes = IF after = docs THEN 0 ELSE 1]
       IN /\ docs' = after
          /\ OwnSlot(r, CASE ~found -> OwnDone(q, 404, after)
                          [] TwoStep(ownRev, q.kind, q.op) ->
                                 [q EXCEPT !.pc = "second",
                                           !.newStatus =
                                               \A d \in FindDocs(docs, f) :
                                                   ~d.isPublished]
                          [] ownRev = "hardDelete" /\ q.op = "delete"
                             /\ q.kind = "Video" ->
                                 [wrote EXCEPT !.pc = "cascade"]
                          [] OTHER -> OwnDone(wrote, 200, after))
    /\ UNCHANGED <<ownFrame, ownRev, issued>>

\* The second operation of updateVideo and updatePlaylist,
\* findByIdAndUpdate(id, ...), and of deleteComment, deleteMany
OwnSecond(r) ==
    /\ r \in Slots
    /\ ownReqs[r].pc = "second"
    /\ LET q == ownReqs[r]
           f == ByIdFilter(ownRev, FirstFilter(ownRev, q))
           found == FindDocs(docs, f) # {}
           after == CASE q.op = "delete" -> RemoveThread(docs, q.id)
                      [] q.op = "publish" ->
                             SetPublished(docs, f, q.newStatus)
                      [] OTHER -> UpdateDocs(docs, f, "new")
           wrote == [q EXCEPT !.writes = IF after = docs THEN 0 ELSE 1]
           missing == /\ ~found
                      /\ ownRev = "hardDelete"
                      /\ q.op = "update"
                      /\ q.kind = "Video"
       IN /\ docs' = after
          /\ OwnSlot(r, OwnDone(wrote, IF missing THEN 404 ELSE 200, after))
    /\ UNCHANGED <<ownFrame, ownRev, issued>>

\* await Promise.all([Like.deleteMany({ video }), View.deleteMany({ video })])
\* of deleteVideo
OwnCascade(r) ==
    /\ r \in Slots
    /\ ownReqs[r].pc = "cascade"
    /\ LET q == ownReqs[r]
       IN /\ likes' = {e \in likes : e.video # q.id}
          /\ views' = {e \in views : e.video # q.id}
          /\ OwnSlot(r, OwnDone(q, 200, docs))
    /\ UNCHANGED <<serial, likeRev, likesCount, likeReqs, likeDone, subVars,
                   viewRev, viewsCount, viewReqs, viewDone, histVars,
                   ownRev, docs, issued, tokVars, errVars, authLog, listVars>>

\* ---------------------------------------------------------- playlist videos
\* the (handler, playlist id, videoId) triples requests are made with; l9
\* names no playlist and v2 is not published
PlaylistParams ==
    {<<"addVideo", "l1", "v1">>, <<"addVideo", "l1", "v3">>,
     <<"addVideo", "l1", "v2">>, <<"addVideo", "l9", "v1">>,
     <<"removeVideo", "l1", "v1">>}

\* playlist.videos as stored; nothing for an id that names no playlist
StoredVideos(lists, id) == IF id \in DOMAIN lists THEN lists[id] ELSE <<>>

\* playlist.videos.includes(videoObjectId) on the document read
Includes(list, v) == \E i \in 1..Len(list) : list[i] = v

\* Playlist.findByIdAndUpdate(playlistId, { $push: { videos: v } }), or
\* { $pull: { videos: v } }; no document, no change
UpdateVideos(lists, id, op, v) ==
    IF id \notin DOMAIN lists THEN lists
    ELSE [lists EXCEPT ![id] = IF op = "addVideo" THEN Append(@, v)
                               ELSE Pull(@, v)]

\* Entry of addVideoToPlaylist and removeVideoFromPlaylist (behind
\* verifyToken: user is the authenticated user)
PlaylistStart(r, op, user, id, video) ==
    /\ FreeSlot(ownReqs, r)
    /\ OwnSlot(r, [IdleOwn EXCEPT
                      !.op = op, !.user = user, !.kind = "Playlist",
                      !.id = id, !.video = video, !.pc = "findPlaylist",
                      !.listPre = StoredVideos(playlistVideos, id),
                      !.listPost = StoredVideos(playlistVideos, id)])
    /\ issued' = issued + 1
    /\ UNCHANGED <<listFrame, listVars, ownRev, docs>>

\* Playlist.findOne({ _id, owner }), 404 without a document; Video.findOne
\* ({ _id, isPublished: true }) of addVideoToPlaylist, 404 without one; the
\* includes test on the document read, 400 when it fails
PlaylistFind(r) ==
    /\ r \in Slots
    /\ ownReqs[r].pc = "findPlaylist"
    /\ LET q == ownReqs[r]
           f == [kind |-> "Playlist", id |-> q.id, owner |-> q.user,
                 live |-> TRUE]
           videos == StoredVideos(playlistVideos, q.id)
           status == CASE FindDocs(docs, f) = {} -> 404
                       [] q.op = "addVideo" /\ ~FindPublished(q.video) -> 404
                       [] q.op = "addVideo" /\ Includes(videos, q.video) -> 400
                       [] q.op = "removeVideo"
                          /\ ~Includes(videos, q.video) -> 400
                       [] OTHER -> 0
           q1 == [q EXCEPT !.listPost = videos]
       IN OwnSlot(r, IF status # 0 THEN OwnDone(q1, status, docs)
                     ELSE [q1 EXCEPT !.seen = videos, !.pc = "updateVideos"])
    /\ UNCHANGED <<listFrame, listVars, ownRev, docs, issued>>

\* Playlist.findByIdAndUpdate(playlistId, { $push / $pull }), and the
\* answer with videoCount: playlist.videos.length + 1, or - 1
PlaylistUpdate(r) ==
    /\ r \in Slots
    /\ ownReqs[r].pc = "updateVideos"
    /\ LET q == ownReqs[r]
           lists == UpdateVideos(playlistVideos, q.id, q.op, q.video)
           n == Len(q.seen) + (IF q.op = "addVideo" THEN 1 ELSE -1)
       IN /\ playlistVideos' = lists
          /\ OwnSlot(r, OwnDone([q EXCEPT !.videoCount = n,
                                          !.listPost = StoredVideos(lists, q.id),
                                          !.writes = 1],
                                200, docs))
    /\ UNCHANGED <<listFrame, commentsCount, ownRev, docs, issued>>

\* ----------------------------------------------------------------- comments
\* the (videoId, parentComment) pairs addComment is called with: a comment
\* on v1, a reply to the first comment made, a comment on no video
CommentParams == {<<"v1", NoId>>, <<"v1", "c3">>, <<"v9", NoId>>}

\* The _id of the comment the n-th request creates
NewCommentId(n) ==
    CASE n = 1 -> "c3" [] n = 2 -> "c4" [] n = 3 -> "c5" [] OTHER -> "c6"

\* The document Comment.create is given, in memory
CommentDoc(id, user, parent) ==
    [kind |-> "Comment", id |-> id, owner |-> user, content |-> "old",
     isDeleted |-> FALSE, isPublished |-> TRUE, parentComment |-> parent,
     isNew |-> TRUE]

\* commentSchema.post('save'): $inc commentsCount of doc.video when
\* doc.isNew (comment.model.ts: and not isDeleted)
CommentPostSave(doc, counts, video) ==
    IF doc.isNew /\ ~doc.isDeleted /\ video \in DOMAIN counts
    THEN [counts EXCEPT ![video] = @ + 1]
    ELSE counts

\* Entry of addComment (behind verifyToken: user is the authenticated user)
CommentStart(r, user, video, parent) ==
    /\ FreeSlot(ownReqs, r)
    /\ OwnSlot(r, [IdleOwn EXCEPT
                      !.op = "addComment", !.user = user, !.kind = "Comment",
                      !.id = NewCommentId(issued + 1), !.video = video,
                      !.seen = <<parent>>, !.pc = "findTarget",
                      !.pre = docs, !.post = docs])
    /\ issued' = issued + 1
    /\ UNCHANGED <<listFrame, listVars, ownRev, docs>>

\* targetModel.findById(id), 404 without a target; Comment.findById of the
\* parent when one is named, 404 without it
CommentFind(r) ==
    /\ r \in Slots
    /\ ownReqs[r].pc = "findTarget"
    /\ LET q == ownReqs[r]
           byId(kind, id) == [kind |-> kind, id |-> id, owner |-> AnyOwner,
                              live |-> HookLive(ownRev, kind)]
           target == FindDocs(docs, byId("Video", q.video))
           parent == FindDocs(docs, byId("Comment", q.seen[1]))
       IN OwnSlot(r, IF target = {} \/ (q.seen[1] # NoId /\ parent = {})
                     THEN OwnDone(q, 404, docs)
                     ELSE [q EXCEPT !.pc = "create"])
    /\ UNCHANGED <<listFrame, listVars, ownRev, docs, issued>>

\* Comment.create with its post('save') hook, and the answer
CommentCreate(r) ==
    /\ r \in Slots
    /\ ownReqs[r].pc = "create"
    /\ LET q == ownReqs[r]
           doc == CommentDoc(q.id, q.user, q.seen[1])
           rows == docs \cup {OwnedDoc("Comment", doc.id, doc.owner,
                                       doc.parentComment)}
       IN /\ docs' = rows
          /\ commentsCount' = CommentPostSave(SavedDoc(doc), commentsCount,
                                              q.video)
          /\ OwnSlot(r, OwnDone([q EXCEPT !.writes = 1], 201, rows))
    /\ UNCHANGED <<listFrame, playlistVideos, ownRev, issued>>

\* ----------------------------------------------------------- refresh tokens
\* jwt.sign({ _id }, secret, { expiresIn: '14d' }): the token is a function
\* of the user and of the second it is signed in (iat), and nothing else
RefreshTtl == 1209600

NoToken == [sub |-> NoId, iat |-> 0, kind |-> "none"]

RefreshJwt(user, at) == [sub |-> user, iat |-> at, kind |-> "refresh"]

AccessJwt(user, at) == [sub |-> user, iat |-> at, kind |-> "access"]

\* a token that was not signed with the refresh secret
Forged == [sub |-> "A", iat |-> 0, kind |-> "forged"]

\* jwt.verify(token, config.refreshTokenSecret): the signature and exp
JwtVerify(tok, at) == tok.kind = "refresh" /\ at < tok.iat + RefreshTtl

\* the refresh tokens the server has handed out so far
HandedOut == {tokDone[i].refresh : i \in 1..Len(tokDone)} \ {NoToken}

\* the seconds the clock can show
\* logoutUser in its revisions: $set: { refreshToken: '' } in the older one,
\* $set: { refreshToken: undefined } in the newer one, where Mongoose up to
\* 5 writes null for the undefined value and Mongoose from 6 on strips the
\* key from the update, which then changes nothing
LogoutRevs == {"setEmpty", "setUndefinedAsNull", "setUndefinedStripped"}

ClockValues ==
    {l * RefreshTtl + s : l \in 0..MaxLifetimes, s \in 0..MaxSeconds}

\* what a client can send as req.body.refreshToken: nothing, a forged token,
\* or a token it was handed
BodyTokens ==
    {NoToken, Forged} \cup {RefreshJwt(u, s) : u \in Users, s \in ClockValues}

IdleTok ==
    [op |-> NoId, user |-> NoId, presented |-> NoToken, pc |-> "idle",
     status |-> 0, access |-> NoToken, refresh |-> NoToken,
     before |-> NoToken, stored |-> NoToken]

TokDone(q, status, stored) ==
    [q EXCEPT !.pc = "done", !.status = status, !.stored = stored]

TokSlot(r, q) ==
    IF q.pc = "done"
    THEN /\ tokReqs' = [tokReqs EXCEPT ![r] = IdleTok]
         /\ tokDone' = Append(tokDone, q)
    ELSE /\ tokReqs' = [tokReqs EXCEPT ![r] = q]
         /\ tokDone' = tokDone

TokFreeSlot(r) ==
    /\ r \in Slots
    /\ tokReqs[r].pc = "idle"
    /\ \A i \in Slots : i < r => tokReqs[i].pc # "idle"
    /\ issued < MaxTokReqs
    /\ Cardinality(InFlight(tokReqs)) < (IF serial THEN 1 ELSE MaxInFlight)

\* Entry of loginUser, after the password was found valid
LoginStart(r, user) ==
    /\ TokFreeSlot(r)
    /\ TokSlot(r, [IdleTok EXCEPT !.op = "login", !.user = user,
                                  !.pc = "sign"])
    /\ issued' = issued + 1
    /\ UNCHANGED <<tokFrame, now, logoutRev, refreshTokens>>

\* Entry of refreshToken with req.body.refreshToken
RefreshStart(r, tok) ==
    /\ TokFreeSlot(r)
    /\ tok \in HandedOut \cup {Forged, NoToken}
    /\ TokSlot(r, [IdleTok EXCEPT !.op = "refresh", !.presented = tok,
                                  !.pc = "verify"])
    /\ issued' = issued + 1
    /\ UNCHANGED <<tokFrame, now, logoutRev, refreshTokens>>

\* refreshToken up to its first throw: 400 without a token; jwt.verify,
\* User.findById(decoded._id).select('+refreshToken') and the comparison
\* with the stored token, 401 when one of them fails
RefreshVerify(r) ==
    /\ r \in Slots
    /\ tokReqs[r].pc = "verify"
    /\ LET q == tokReqs[r]
           tok == q.presented
       IN TokSlot(r, CASE tok = NoToken -> TokDone(q, 400, NoToken)
                       [] ~JwtVerify(tok, now) -> TokDone(q, 401, NoToken)
                       [] tok.sub \notin Users
                          \/ refreshTokens[tok.sub] # tok ->
                              TokDone([q EXCEPT !.user = tok.sub], 401,
                                      NoToken)
                       [] OTHER -> [q EXCEPT !.user = tok.sub, !.pc = "sign"])
    /\ UNCHANGED <<tokFrame, issued, now, logoutRev, refreshTokens>>

\* getAccessAndRefreshToken: User.findById, generateAccessToken,
\* generateRefreshToken
TokenSign(r) ==
    /\ r \in Slots
    /\ tokReqs[r].pc = "sign"
    /\ LET q == tokReqs[r]
       IN TokSlot(r, [q EXCEPT !.access = AccessJwt(q.user, now),
                               !.refresh = RefreshJwt(q.user, now),
                               !.pc = "save"])
    /\ UNCHANGED <<tokFrame, issued, now, logoutRev, refreshTokens>>

\* user.refreshToken = refreshToken; await user.save(...), and the answer
TokenSave(r) ==
    /\ r \in Slots
    /\ tokReqs[r].pc = "save"
    /\ LET q == tokReqs[r]
       IN /\ refreshTokens' = [refreshTokens EXCEPT ![q.user] = q.refresh]
          /\ TokSlot(r, TokDone(q, 200, q.refresh))
    /\ UNCHANGED <<tokFrame, issued, now, logoutRev>>

\* Entry of logoutUser, behind verifyToken: req.user is the caller
LogoutStart(r, user) ==
    /\ TokFreeSlot(r)
    /\ TokSlot(r, [IdleTok EXCEPT !.op = "logout", !.user = user,
                                  !.pc = "clear"])
    /\ issued' = issued + 1
    /\ UNCHANGED <<tokFrame, now, logoutRev, refreshTokens>>

\* What the update of logoutUser leaves in user.refreshToken
LogoutUpdateResult(rev, old) ==
    IF rev = "setUndefinedStripped" THEN old ELSE NoToken

\* User.findByIdAndUpdate(user._id, { $set: { refreshToken: ... } }), the
\* cookies cleared, and the answer
LogoutClear(r) ==
    /\ r \in Slots
    /\ tokReqs[r].pc = "clear"
    /\ LET q == tokReqs[r]
           old == refreshTokens[q.user]
           left == LogoutUpdateResult(logoutRev, old)
       IN /\ refreshTokens' = [refreshTokens EXCEPT ![q.user] = left]
          /\ TokSlot(r, TokDone([q EXCEPT !.before = old], 200, left))
    /\ UNCHANGED <<tokFrame, issued, now, logoutRev>>

\* The clock moves on by a second, or by the lifetime of a refresh token
Tick(d) ==
    /\ \/ d = 1 /\ now % RefreshTtl < MaxSeconds
       \/ d = RefreshTtl /\ now \div RefreshTtl < MaxLifetimes
    /\ now' = now + d
    /\ UNCHANGED <<tokFrame, issued, logoutRev, refreshTokens, tokReqs, tokDone>>

\* ------------------------------------------------------------ error envelope
\* The global error handler in its two revisions: errorMiddleware, and the
\* handler written inline in app.ts
ErrRevs == {"error.middleware", "app.inline"}

\* JavaScript values, by type
Undefined == [undefined |-> TRUE]

Null == [null |-> TRUE]

Str(s) == [string |-> s]

Arr(a) == [array |-> a]

ErrStatuses == {400, 401, 403, 404, 409, 500}

ErrMessages == {"Video not found or access denied", "Unauthorized"}

ErrLists == {<<>>, <<"detail">>}

NoError == [name |-> "none"]

\* new ApiError(statusCode, message, errors)
ApiError(statusCode, message, errors) ==
    [name |-> "ApiError", statusCode |-> statusCode, message |-> Str(message),
     errors |-> Arr(errors)]

\* an error that is not an ApiError
PlainError(message) == [name |-> "Error", message |-> Str(message)]

\* new ApiResponse(statusCode, data, message = 'Success'), meta undefined
NewApiResponse(statusCode, data, message) ==
    [statusCode |-> statusCode, data |-> data,
     message |-> IF message = Undefined THEN Str("Success") ELSE message,
     success |-> statusCode < 400]

\* ApiResponse.error(statusCode, data = null, message, errors = [])
ApiResponseError(statusCode, data, message, errors) ==
    LET d == IF data = Undefined THEN Null ELSE data
        e == IF errors = Undefined THEN Arr(<<>>) ELSE errors
        response == [NewApiResponse(statusCode, d, message)
                         EXCEPT !.success = FALSE]
    IN IF Len(e.array) > 0
       THEN [response EXCEPT !.data = [spread |-> d, errors |-> e]]
       ELSE response

\* What the error handler sends: res.status(...).json(ApiResponse.error(...))
ErrorResponse(rev, error) ==
    CASE rev = "error.middleware" /\ error.name = "ApiError" ->
             [http |-> error.statusCode,
              body |-> ApiResponseError(error.statusCode, error.message,
                                        error.errors, Undefined)]
      [] rev = "error.middleware" ->
             [http |-> 500,
              body |-> ApiResponseError(500, Str("Internal server error"),
                                        Undefined, Undefined)]
      [] error.name = "ApiError" ->
             [http |-> error.statusCode,
              body |-> ApiResponseError(error.statusCode, Null, error.message,
                                        error.errors)]
      [] OTHER ->
             [http |-> 500,
              body |-> ApiResponseError(500, Null,
                                        Str("Internal Server Error"),
                                        Arr(<<error.message.string>>))]

\* A handler throws; asyncHandler hands the error to next()
HandlerThrows(error) ==
    /\ thrown = NoError
    /\ issued < MaxReqs
    /\ thrown' = error
    /\ issued' = issued + 1
    /\ UNCHANGED <<errFrame, errRev, errDone>>

\* The global error handler answers the request
ErrorMiddleware ==
    /\ thrown # NoError
    /\ errDone' = Append(errDone, [error |-> thrown,
                                   response |-> ErrorResponse(errRev, thrown)])
    /\ thrown' = NoError
    /\ UNCHANGED <<errFrame, errRev, issued>>

\* --------------------------------------------------------------- verifyToken
\* jwt.sign(..., config.accessTokenSecret, { expiresIn: '1d' })
AccessTtl == 86400

\* What a request can carry in its Authorization header or accessToken
\* cookie: nothing, a token not signed with the access secret (forged, or a
\* refresh token), access tokens of A and of B signed this second, one of A
\* signed a day ago, and one of a user since deleted
Credentials ==
    {NoToken, Forged, RefreshJwt("A", 0), AccessJwt("A", 0),
     AccessJwt("B", 0), AccessJwt("A", 0 - AccessTtl), AccessJwt("u9", 0)}

\* the routers verifyToken stands in front of
Routers == {"likes", "subscriptions"}

JwtVerifyAccessAny(tok, at) == TRUE

\* jwt.verify(token, config.accessTokenSecret): the signature and exp
JwtVerifyAccess(tok, at) == tok.kind = "access" /\ at < tok.iat + AccessTtl

\* User.findById(decoded._id)
UserFound(id) == id \in Users

\* verifyToken: whether next() is called; 401 otherwise
CallsNext(tok, at) ==
    /\ tok # NoToken
    /\ JwtVerifyAccess(tok, at)
    /\ UserFound(tok.sub)

AuthEntries == {authLog[i] : i \in 1..Len(authLog)}

\* the request verifyToken has let through and whose handler has not started
Admitted == {e \in AuthEntries : e.next /\ e.n = issued + 1}

\* The request's handler has a slot to start in
CanStart(router) ==
    IF router = "likes"
    THEN likeRev \in LikeRevs /\ \E r \in Slots : FreeSlot(likeReqs, r)
    ELSE subRev \in SubRevs /\ \E r \in Slots : FreeSlot(subReqs, r)

\* A request reaches verifyToken, which answers 401 or sets req.user and
\* calls next()
VerifyToken(router, tok) ==
    /\ Admitted = {}
    /\ CanStart(router)
    /\ LET ok == CallsNext(tok, now)
       IN /\ authLog' = Append(authLog,
                               [n |-> issued + 1, router |-> router,
                                token |-> tok, at |-> now, next |-> ok,
                                status |-> IF ok THEN 0 ELSE 401,
                                user |-> IF ok THEN tok.sub ELSE NoId])
          /\ issued' = IF ok THEN issued ELSE issued + 1
    /\ UNCHANGED <<serial, likeVars, subVars, viewVars, histVars, ownVars,
                   tokVars, errVars, listVars>>

\* next(): toggleLike runs with req.user
AdmittedLike(r, type, id) ==
    \E e \in Admitted : e.router = "likes" /\ LikeStart(r, e.user, type, id)

\* next(): subscribe, unsubscribe or toggleSubscription runs with req.user
AdmittedSub(r, op, channel) ==
    \E e \in Admitted :
        e.router = "subscriptions" /\ SubStart(r, op, e.user, channel)

\* ------------------------------------------------------- specification
\* A run exercises the like routes of one revision or the subscription
\* routes of one revision; the two families share no collection and no
\* counter.  NoRev: the family has no traffic in this run.
NoRev == "none"

LikeInit ==
    /\ likeRev \in LikeRevs
    /\ subRev = NoRev

SubInit ==
    /\ likeRev = NoRev
    /\ subRev \in SubRevs

\* No like and no subscription yet, every counter at its default 0
NothingToggled ==
    /\ likes = {}
    /\ likesCount = [t \in TargetIds |-> 0]
    /\ subs = {}
    /\ subscribersCount = [u \in Users |-> 0]

\* No user has a watch history yet
NothingWatched == watchHistory = [u \in Users |-> <<>>]

\* No request, and every other collection as it is seeded
NoRequests ==
    /\ likeReqs = [r \in Slots |-> IdleLike]
    /\ likeDone = <<>>
    /\ subReqs = [r \in Slots |-> IdleSub]
    /\ subDone = <<>>
    /\ views = {}
    /\ viewsCount = [v \in Videos |-> 0]
    /\ viewReqs = [r \in Slots |-> IdleView]
    /\ viewDone = <<>>
    /\ histReqs = [r \in Slots |-> IdleHist]
    /\ histDone = <<>>
    /\ docs = SeedDocs
    /\ ownReqs = [r \in Slots |-> IdleOwn]
    /\ ownDone = <<>>
    /\ now = 0
    /\ refreshTokens = [u \in Users |-> NoToken]
    /\ tokReqs = [r \in Slots |-> IdleTok]
    /\ tokDone = <<>>
    /\ thrown = NoError
    /\ errDone = <<>>
    /\ authLog = <<>>
    /\ playlistVideos = [l \in Playlists |-> <<>>]
    /\ commentsCount = [v \in Videos |-> 0]
    /\ issued = 0

\* Every toggle collection empty, every counter at its default 0, no request
AtRest == NothingToggled /\ NothingWatched /\ NoRequests

Init ==
    /\ serial \in BOOLEAN
    /\ LikeInit \/ SubInit
    /\ viewRev = NoRev
    /\ ownRev = NoRev
    /\ errRev = NoRev
    /\ logoutRev = NoRev
    /\ AtRest

Next ==
    \/ \E r \in Slots, u \in Users, p \in LikeParams :
           LikeStart(r, u, p[1], p[2])
    \/ \E r \in Slots : LikeFindTarget(r)
    \/ \E r \in Slots : LikeFindExisting(r)
    \/ \E r \in Slots : LikeRowOp(r)
    \/ \E r \in Slots : LikeIncOp(r)
    \/ \E r \in Slots : LikeWriteCount(r)
    \/ \E r \in Slots, u \in Users, p \in SubParams :
           SubStart(r, p[1], u, p[2])
    \/ \E r \in Slots : SubFindExisting(r)
    \/ \E r \in Slots : SubFindChannel(r)
    \/ \E r \in Slots : SubRowOp(r)
    \/ \E r \in Slots : SubPostSave(r)
    \/ \E r \in Slots : SubIncOp(r)
    \/ \E r \in Slots : UnsubFindAndRemove(r)
    \/ \E r \in Slots : UnsubDec(r)

Spec == Init /\ [][Next]_vars

\* A run of the same handlers that starts later in the life of the
\* deployment: A has liked v1, or subscribed to B, before (active), or has
\* done so and has taken it back (inactive)
LaterInit ==
    /\ serial \in BOOLEAN
    /\ viewRev = NoRev
    /\ ownRev = NoRev
    /\ errRev = NoRev
    /\ logoutRev = NoRev
    /\ NoRequests
    /\ NothingWatched
    /\ \E phase \in Phases :
           \/ /\ LikeInit
              /\ likes = PriorLikes(likeRev, phase)
              /\ likesCount = PriorLikesCount(likeRev, phase)
              /\ subs = {}
              /\ subscribersCount = [u \in Users |-> 0]
           \/ /\ SubInit
              /\ likes = {}
              /\ likesCount = [t \in TargetIds |-> 0]
              /\ subs = PriorSubs(subRev, phase)
              /\ subscribersCount = PriorSubscribersCount(subRev, phase)

LaterSpec == LaterInit /\ [][Next]_vars

\* A run that exercises the view-logging routes of one revision
ViewInit ==
    /\ serial \in BOOLEAN
    /\ likeRev = NoRev
    /\ subRev = NoRev
    /\ viewRev \in ViewRevs
    /\ ownRev = NoRev
    /\ errRev = NoRev
    /\ logoutRev = NoRev
    /\ AtRest

ViewNext ==
    \/ \E r \in Slots, u \in Users, i \in Ips, p \in ViewParams :
           ViewStart(r, p[1], u, i, p[2])
    \/ \E r \in Slots : ViewFindVideo(r)
    \/ \E r \in Slots : ViewFindExisting(r)
    \/ \E r \in Slots : ViewRowOp(r)
    \/ \E r \in Slots : ViewIncOp(r)

ViewSpec == ViewInit /\ [][ViewNext]_vars

\* A run that exercises the watch-history routes
HistInit ==
    /\ serial \in BOOLEAN
    /\ likeRev = NoRev
    /\ subRev = NoRev
    /\ viewRev = NoRev
    /\ ownRev = NoRev
    /\ errRev = NoRev
    /\ logoutRev = NoRev
    /\ NoRequests
    /\ NothingWatched
    /\ likes = {}
    /\ likesCount = [t \in TargetIds |-> 0]
    /\ \/ /\ subs = {}
          /\ subscribersCount = [u \in Users |-> 0]
       \/ \E rev \in SubRevs, phase \in Phases :
              /\ subs = PriorSubs(rev, phase)
              /\ subscribersCount = PriorSubscribersCount(rev, phase)

HistNext ==
    \/ \E r \in Slots, u \in Users, p \in HistParams :
           HistStart(r, p[1], u, p[2])
    \/ \E r \in Slots : HistFindVideo(r)
    \/ \E r \in Slots : HistFindSubscription(r)
    \/ \E r \in Slots : HistUpdate(r)

HistSpec == HistInit /\ [][HistNext]_vars

\* A run of the same handlers over User documents whose watchHistory is
\* filled: any list of distinct videos of at most MaxHistory entries for A,
\* none or two for B
FilledInit ==
    /\ serial \in BOOLEAN
    /\ likeRev = NoRev
    /\ subRev = NoRev
    /\ viewRev = NoRev
    /\ ownRev = NoRev
    /\ errRev = NoRev
    /\ logoutRev = NoRev
    /\ NoRequests
    /\ NothingToggled
    /\ watchHistory \in {h \in [Users -> StoredHistories] :
                            h["B"] \in {<<>>, <<"v3", "v1">>}}

FilledSpec == FilledInit /\ [][HistNext]_vars

\* A run that exercises the update and delete routes of one revision
OwnInit ==
    /\ serial \in BOOLEAN
    /\ likeRev = NoRev
    /\ subRev = NoRev
    /\ viewRev = NoRev
    /\ ownRev \in OwnRevs
    /\ errRev = NoRev
    /\ logoutRev = NoRev
    /\ AtRest

OwnNext ==
    \/ \E r \in Slots, u \in Users, p \in OwnParams :
           OwnStart(r, p[1], u, p[2], p[3])
    \/ \E r \in Slots : OwnFirst(r)
    \/ \E r \in Slots : OwnSecond(r)
    \/ \E r \in Slots : OwnCascade(r)

OwnSpec == OwnInit /\ [][OwnNext]_vars

\* A run that exercises the playlist-video routes
PlaylistInit ==
    /\ serial \in BOOLEAN
    /\ likeRev = NoRev
    /\ subRev = NoRev
    /\ viewRev = NoRev
    /\ ownRev = NoRev
    /\ errRev = NoRev
    /\ logoutRev = NoRev
    /\ AtRest

PlaylistNext ==
    \/ \E r \in Slots, u \in Users, p \in PlaylistParams :
           PlaylistStart(r, p[1], u, p[2], p[3])
    \/ \E r \in Slots : PlaylistFind(r)
    \/ \E r \in Slots : PlaylistUpdate(r)

PlaylistSpec == PlaylistInit /\ [][PlaylistNext]_vars

\* A run that exercises addComment and deleteComment of one revision, on
\* a video that has no comment yet
CommentInit ==
    /\ serial \in BOOLEAN
    /\ likeRev = NoRev
    /\ subRev = NoRev
    /\ viewRev = NoRev
    /\ ownRev \in OwnRevs
    /\ errRev = NoRev
    /\ logoutRev = NoRev
    /\ NothingToggled
    /\ NothingWatched
    /\ likeReqs = [r \in Slots |-> IdleLike]
    /\ likeDone = <<>>
    /\ subReqs = [r \in Slots |-> IdleSub]
    /\ subDone = <<>>
    /\ views = {}
    /\ viewsCount = [v \in Videos |-> 0]
    /\ viewReqs = [r \in Slots |-> IdleView]
    /\ viewDone = <<>>
    /\ histReqs = [r \in Slots |-> IdleHist]
    /\ histDone = <<>>
    /\ docs = {d \in SeedDocs : d.kind # "Comment"}
    /\ ownReqs = [r \in Slots |-> IdleOwn]
    /\ ownDone = <<>>
    /\ now = 0
    /\ refreshTokens = [u \in Users |-> NoToken]
    /\ tokReqs = [r \in Slots |-> IdleTok]
    /\ tokDone = <<>>
    /\ thrown = NoError
    /\ errDone = <<>>
    /\ authLog = <<>>
    /\ playlistVideos = [l \in Playlists |-> <<>>]
    /\ commentsCount = [v \in Videos |-> 0]
    /\ issued = 0

CommentNext ==
    \/ \E r \in Slots, u \in Users, p \in CommentParams :
           CommentStart(r, u, p[1], p[2])
    \/ \E r \in Slots : CommentFind(r)
    \/ \E r \in Slots : CommentCreate(r)
    \/ \E r \in Slots, u \in Users : OwnStart(r, "delete", u, "Comment", "c3")
    \/ \E r \in Slots : OwnFirst(r)
    \/ \E r \in Slots : OwnSecond(r)

CommentSpec == CommentInit /\ [][CommentNext]_vars

\* A run in which deleteVideo of v1 meets toggleLike and logView of v1; A
\* has liked v1 before.  In a serial run no request of one family starts
\* while one of another is in flight.
DeleteInit ==
    /\ serial \in BOOLEAN
    /\ likeRev \in LikeRevs
    /\ subRev = NoRev
    /\ viewRev \in ViewRevs
    /\ ownRev \in OwnRevs
    /\ errRev = NoRev
    /\ logoutRev = NoRev
    /\ NoRequests
    /\ NothingWatched
    /\ likes = PriorLikes(likeRev, "active")
    /\ likesCount = PriorLikesCount(likeRev, "active")
    /\ subs = {}
    /\ subscribersCount = [u \in Users |-> 0]

Unoverlapped ==
    serial => Quiet(likeReqs) /\ Quiet(viewReqs) /\ Quiet(ownReqs)

DeleteVideoStart(r, user) ==
    Unoverlapped /\ OwnStart(r, "delete", user, "Video", "v1")

LikeVideoStart(r, user) ==
    Unoverlapped /\ LikeStart(r, user, "Video", "v1")

LogViewStart(r, user, ip) ==
    Unoverlapped /\ ViewStart(r, "logView", user, ip, "v1")

DeleteNext ==
    \/ \E r \in Slots, u \in Users : DeleteVideoStart(r, u)
    \/ \E r \in Slots : OwnFirst(r)
    \/ \E r \in Slots : OwnCascade(r)
    \/ \E r \in Slots, u \in Users : LikeVideoStart(r, u)
    \/ \E r \in Slots : LikeFindTarget(r)
    \/ \E r \in Slots : LikeFindExisting(r)
    \/ \E r \in Slots : LikeRowOp(r)
    \/ \E r \in Slots : LikeIncOp(r)
    \/ \E r \in Slots : LikeWriteCount(r)
    \/ \E r \in Slots, u \in Users, i \in Ips : LogViewStart(r, u, i)
    \/ \E r \in Slots : ViewFindVideo(r)
    \/ \E r \in Slots : ViewFindExisting(r)
    \/ \E r \in Slots : ViewRowOp(r)
    \/ \E r \in Slots : ViewIncOp(r)

DeleteSpec == DeleteInit /\ [][DeleteNext]_vars

\* A run that exercises login and refresh-token
TokInit ==
    /\ serial \in BOOLEAN
    /\ likeRev = NoRev
    /\ subRev = NoRev
    /\ viewRev = NoRev
    /\ ownRev = NoRev
    /\ errRev = NoRev
    /\ logoutRev \in LogoutRevs
    /\ AtRest

TokNext ==
    \/ \E r \in Slots, u \in Users : LoginStart(r, u)
    \/ \E r \in Slots, t \in BodyTokens : RefreshStart(r, t)
    \/ \E r \in Slots : RefreshVerify(r)
    \/ \E r \in Slots : TokenSign(r)
    \/ \E r \in Slots : TokenSave(r)
    \/ \E r \in Slots, u \in Users : LogoutStart(r, u)
    \/ \E r \in Slots : LogoutClear(r)
    \/ \E d \in {1, RefreshTtl} : Tick(d)

TokSpec == TokInit /\ [][TokNext]_vars

\* A run in which handlers throw and the global error handler answers
ErrInit ==
    /\ serial = TRUE
    /\ likeRev = NoRev
    /\ subRev = NoRev
    /\ viewRev = NoRev
    /\ ownRev = NoRev
    /\ errRev \in ErrRevs
    /\ logoutRev = NoRev
    /\ AtRest

ErrNext ==
    \/ \E s \in ErrStatuses, m \in ErrMessages, e \in ErrLists :
           HandlerThrows(ApiError(s, m, e))
    \/ \E m \in ErrMessages : HandlerThrows(PlainError(m))
    \/ ErrorMiddleware

ErrSpec == ErrInit /\ [][ErrNext]_vars

\* A run of the like routes or of the subscription routes of one revision,
\* every request passing through verifyToken
AuthInit == Init

AuthNext ==
    \/ \E g \in Routers, t \in Credentials : VerifyToken(g, t)
    \/ \E r \in Slots, p \in LikeParams : AdmittedLike(r, p[1], p[2])
    \/ \E r \in Slots, p \in SubParams : AdmittedSub(r, p[1], p[2])
    \/ \E r \in Slots : LikeFindTarget(r)
    \/ \E r \in Slots : LikeFindExisting(r)
    \/ \E r \in Slots : LikeRowOp(r)
    \/ \E r \in Slots : LikeIncOp(r)
    \/ \E r \in Slots : LikeWriteCount(r)
    \/ \E r \in Slots : SubFindExisting(r)
    \/ \E r \in Slots : SubFindChannel(r)
    \/ \E r \in Slots : SubRowOp(r)
    \/ \E r \in Slots : SubPostSave(r)
    \/ \E r \in Slots : SubIncOp(r)
    \/ \E r \in Slots : UnsubFindAndRemove(r)
    \/ \E r \in Slots : UnsubDec(r)

AuthSpec == AuthInit /\ [][AuthNext]_vars

\* ------------------------------------------------------------ properties
LikeAnswers == {likeDone[i] : i \in 1..Len(likeDone)}

SubAnswers == {subDone[i] : i \in 1..Len(subDone)}

\* The users with an active Like row on a target
LikersOf(id) == {e.likedBy : e \in ActiveLikes(likes, id)}

LikeCountsMatchRows ==
    \A t \in TargetIds : likesCount[t] = Cardinality(ActiveLikes(likes, t))

SubCountsMatchRows ==
    \A u \in Users : subscribersCount[u] = Cardinality(ActiveSubs(subs, u))

\* The example run of the specification: A, B, A toggle the like of video V
ScenarioScript == <<"A", "B", "A">>

\* The run so far is the first n requests of the example, one after the other
ScenarioRun(n) ==
    /\ serial
    /\ Quiet(likeReqs)
    /\ issued = n
    /\ Len(likeDone) = n
    /\ \A i \in 1..n : /\ likeDone[i].user = ScenarioScript[i]
                       /\ likeDone[i].type = "Video"
                       /\ likeDone[i].id = "v1"

\* C1: after any sequence of non-overlapping toggleLike requests the stored
\* likesCount of every target equals the number of its active Like rows; in
\* the example run the video goes 0 -> 1 (A likes), 1 -> 2 (B likes), 2 -> 1
\* (A unlikes) and ends with one active row, B's.
C1_LikeCountMatchesRowsSerial ==
    /\ (likeRev \in LikeRevs /\ serial /\ Quiet(likeReqs)) => LikeCountsMatchRows
    /\ ScenarioRun(1) => likesCount["v1"] = 1 /\ LikersOf("v1") = {"A"}
    /\ ScenarioRun(2) => likesCount["v1"] = 2 /\ LikersOf("v1") = {"A", "B"}
    /\ ScenarioRun(3) => likesCount["v1"] = 1 /\ LikersOf("v1") = {"B"}

\* All requests of the run came from distinct actors and hit one target
DistinctActorsOneTarget ==
    \A i, j \in 1..Len(likeDone) :
        i # j => /\ likeDone[i].user # likeDone[j].user
                 /\ likeDone[i].type = likeDone[j].type
                 /\ likeDone[i].id = likeDone[j].id

\* C2: when toggleLike requests of distinct actors on one target interleave,
\* then once all of them have completed the stored likesCount equals the
\* number of active Like rows (no lost update).
C2_NoLostLikeUpdate ==
    (likeRev \in LikeRevs /\ Quiet(likeReqs) /\ DistinctActorsOneTarget)
        => LikeCountsMatchRows

\* C3: after any sequence of subscribe, unsubscribe and toggleSubscription
\* requests (handler $inc and model hooks together) subscribersCount of every
\* channel equals the number of its active Subscription rows; a successful
\* subscribe changes the count by exactly +1, a successful unsubscribe by -1.
C3_SubscriberCountMatchesRows ==
    (subRev \in SubRevs /\ serial /\ Quiet(subReqs)) =>
        /\ SubCountsMatchRows
        /\ \A q \in SubAnswers :
              /\ (q.op = "subscribe" /\ q.status = 201)
                    => q.post.count = q.pre.count + 1
              /\ (q.op = "unsubscribe" /\ q.status = 200)
                    => q.post.count = q.pre.count - 1

SubscribeRace ==
    /\ subRev \in SubRevs
    /\ Quiet(subReqs)
    /\ issued = 2
    /\ Len(subDone) = 2
    /\ \A i \in 1..2 : /\ subDone[i].op \in {"subscribe", "toggle"}
                       /\ subDone[i].existing = 0
                       /\ subDone[i].rowOp \in {"done", "err"}
    /\ subDone[1].user = subDone[2].user
    /\ subDone[1].channel = subDone[2].channel
    /\ subDone[1].channel \in Users
    /\ subDone[1].channel # subDone[1].user

\* C5: when two subscribe or toggleSubscription requests of one subscriber
\* for one channel both observe no subscription, the second create fails or
\* is absorbed and subscribersCount of the channel goes up by 1 in total.
C5_RacingSubscribeCountsOnce ==
    SubscribeRace =>
        /\ Cardinality(ActiveSubs(subs, subDone[1].channel)) = 1
        /\ subscribersCount[subDone[1].channel] = 1

\* C6: two consecutive toggles (toggleLike or toggleSubscription) of one
\* actor on one existing target, nothing in between, leave the actor's
\* active state and the target's stored counter as before the first toggle.
C6_TwoTogglesRestore ==
    /\ \A i \in 1..(Len(likeDone) - 1) :
          (/\ serial
           /\ likeDone[i].user = likeDone[i + 1].user
           /\ likeDone[i].type = likeDone[i + 1].type
           /\ likeDone[i].id = likeDone[i + 1].id
           /\ LikeTypeValid(likeRev, likeDone[i].type)
           /\ likeDone[i].id \in TargetIds)
              => likeDone[i + 1].post = likeDone[i].pre
    /\ \A i \in 1..(Len(subDone) - 1) :
          (/\ serial
           /\ subDone[i].op = "toggle" /\ subDone[i + 1].op = "toggle"
           /\ subDone[i].user = subDone[i + 1].user
           /\ subDone[i].channel = subDone[i + 1].channel
           /\ subDone[i].channel \in Users)
              => subDone[i + 1].post = subDone[i].pre

\* C7: the stored counters are never negative in any reachable state; every
\* decrement of toggleLike, unsubscribe and toggleSubscription is clamped at
\* zero, also when two requests of one actor observe the same row.
C7_CountersNeverNegative ==
    /\ \A t \in TargetIds : likesCount[t] >= 0
    /\ \A u \in Users : subscribersCount[u] >= 0

\* C8: a toggle whose target does not exist (toggleLike on a missing video,
\* post or comment; subscribe or toggleSubscription on a missing channel)
\* answers 404, creates no row and changes no counter.
C8_MissingTargetIs404 ==
    /\ \A q \in LikeAnswers :
          (LikeTypeValid(likeRev, q.type) /\ q.id \notin TargetIds)
              => q.status = 404 /\ q.writes = 0
    /\ \A q \in SubAnswers :
          (q.op \in {"subscribe", "toggle"} /\ q.channel \notin Users)
              => q.status = 404 /\ q.writes = 0
    /\ \A r \in Slots :
          /\ likeReqs[r].id \notin TargetIds => likeReqs[r].writes = 0
          /\ subReqs[r].channel \notin Users => subReqs[r].writes = 0
    /\ \A e \in likes : RowTarget(e) \in TargetIds
    /\ \A e \in subs : e.channel \in Users
    /\ DOMAIN likesCount = TargetIds
    /\ DOMAIN subscribersCount = Users

\* A like on a missing video was answered 404 while the collection holds rows
C8_Witness ==
    /\ likes # {}
    /\ \E q \in LikeAnswers :
          /\ q.id \in MissingIds
          /\ q.status = 404
          /\ q.post = q.pre

\* C9: subscribe and toggleSubscription refuse a request whose channel is the
\* requesting user with 400 or 409, so no Subscription row has subscriber =
\* channel and no user's subscribersCount is changed by their own request.
C9_NoSelfSubscription ==
    /\ \A e \in subs : e.subscriber # e.channel
    /\ \A q \in SubAnswers :
          (q.op \in {"subscribe", "toggle"} /\ q.user = q.channel)
              => q.status \in {400, 409} /\ q.writes = 0

\* C10: a toggleLike answered 200, with no other request overlapping it,
\* returns liked = TRUE exactly when an active Like row of the actor on the
\* target exists after the request, and a likesCount equal to the stored
\* likesCount of the target after the request.
C10_ResponseMatchesStore ==
    \A q \in LikeAnswers :
        (serial /\ q.status = 200) =>
            /\ q.liked = q.post.active
            /\ q.likesCount = q.post.count

\* One actor liked and then unliked a target, both answered 200
C10_Witness ==
    /\ serial
    /\ Len(likeDone) = 2
    /\ likeDone[1].status = 200 /\ likeDone[1].liked
    /\ likeDone[1].likesCount = 1
    /\ likeDone[2].status = 200 /\ ~likeDone[2].liked
    /\ likeDone[2].likesCount = 0
    /\ likeDone[2].user = likeDone[1].user

ViewCountsMatchRows ==
    \A v \in Videos : viewsCount[v] = Cardinality(ViewsOf(views, v))

\* The run was two requests on one existing video, one after the other
TwoViewsInTurn ==
    /\ viewRev \in ViewRevs
    /\ serial
    /\ Quiet(viewReqs)
    /\ issued = 2
    /\ Len(viewDone) = 2
    /\ viewDone[1].video = viewDone[2].video
    /\ viewDone[1].video \in Videos

\* C11: two logView calls, one after the other, of one authenticated user
\* for one published video create exactly one View row and increment views
\* exactly once; the second call reports the view as already logged.
C11_SecondViewAlreadyLogged ==
    (/\ TwoViewsInTurn
     /\ viewDone[1].op = "logView" /\ viewDone[2].op = "logView"
     /\ viewDone[1].user = viewDone[2].user)
        => /\ Cardinality(ViewsOf(views, viewDone[1].video)) = 1
           /\ viewsCount[viewDone[1].video] = 1
           /\ viewDone[1].status = 201
           /\ viewDone[2].status = 200 /\ viewDone[2].existing # 0

\* C12: after any interleaving of logView and getVideoById requests of any
\* viewers, two requests of one identity that both found no view included,
\* the views counter of every video equals the number of its View rows.
C12_ViewCountMatchesRows ==
    (viewRev \in ViewRevs /\ Quiet(viewReqs)) => ViewCountsMatchRows

\* C13: a view is keyed by (video, viewer) for an authenticated request and
\* by (video, ip) otherwise, never by both: two distinct authenticated users
\* viewing one video from one IP address each get their own View row and
\* each increment views exactly once.
C13_ViewKeyedByViewer ==
    (/\ TwoViewsInTurn
     /\ viewDone[1].user # viewDone[2].user
     /\ viewDone[1].ip = viewDone[2].ip)
        => \A i \in 1..2 :
              /\ \E e \in ViewsOf(views, viewDone[i].video) :
                    e.viewer = viewDone[i].user
              /\ viewDone[i].post.count = viewDone[i].pre.count + 1

HistAnswers == {histDone[i] : i \in 1..Len(histDone)}

NoDuplicates(list) ==
    \A i, j \in 1..Len(list) : i # j => list[i] # list[j]

\* C14: in every reachable state the watchHistory of every user has no
\* duplicate video id and at most 100 entries, after any sequence of
\* addToWatchHistory, removeFromWatchHistory and clearWatchHistory.
C14_HistoryDistinctAndCapped ==
    \A u \in Users :
        /\ NoDuplicates(watchHistory[u])
        /\ Len(watchHistory[u]) <= HistoryCap

\* One user had addToWatchHistory answered twice for an existing video
C14_Witness ==
    /\ Len(histDone) = 2
    /\ \A i \in 1..2 : /\ histDone[i].op = "add"
                       /\ histDone[i].video \in Videos
                       /\ histDone[i].status \in {200, 500}
    /\ histDone[1].user = histDone[2].user

\* C15: addToWatchHistory(user, v) succeeds and puts v at the front of the
\* user's watchHistory, the other entries keeping their order: a v already
\* present is moved, and beyond 100 entries the oldest is dropped.
C15_AddPutsVideoFirst ==
    \A q \in HistAnswers :
        (serial /\ q.op = "add" /\ q.video \in Videos)
            => /\ q.status = 200
               /\ q.post = Slice(PushFront(Pull(q.pre, q.video), q.video),
                                 HistoryCap)

OwnAnswers == {ownDone[i] : i \in 1..Len(ownDone)}

\* The request names a stored document of another user
NotTheOwner(q) ==
    \E d \in q.pre : d.kind = q.kind /\ d.id = q.id /\ d.owner # q.user

\* C16: an update or delete of a video, post, playlist or comment asked for
\* by an authenticated user who does not own it is answered 403 or 404 and
\* writes nothing: the request makes no write, and when requests do not
\* overlap the stored documents are the same after it as before it.
C16_NonOwnerChangesNothing ==
    \A q \in OwnAnswers :
        (NotTheOwner(q) /\ q.op \in {"update", "delete"}) =>
            /\ q.status \in {403, 404}
            /\ q.writes = 0
            /\ serial => q.post = q.pre

\* C17: a subscribe request for a channel the user already has an active
\* subscription to is answered 409, creates no second Subscription row and
\* leaves the channel's subscribersCount as it was (requests that do not
\* overlap: the subscription is there from the request's start to its end).
C17_DuplicateSubscribeIs409 ==
    \A q \in SubAnswers :
        (serial /\ q.op = "subscribe" /\ q.pre.active) =>
            /\ q.status = 409
            /\ q.writes = 0
            /\ q.post = q.pre

\* C18: refresh tokens are rotated on use.  When refreshToken succeeds with
\* token T, the user's stored refresh token is the one the answer carries,
\* and every later refreshToken request that presents T is answered 401 and
\* is given no tokens (requests that do not overlap, so that later is the
\* order of the answers).
C18_RefreshTokenRotates ==
    \A i \in 1..Len(tokDone) :
        LET q == tokDone[i]
        IN (serial /\ q.op = "refresh" /\ q.status = 200) =>
               /\ q.stored = q.refresh
               /\ \A j \in (i + 1)..Len(tokDone) :
                      LET l == tokDone[j]
                      IN (l.op = "refresh" /\ l.presented = q.presented) =>
                             /\ l.status = 401
                             /\ l.refresh = NoToken
                             /\ l.access = NoToken

\* C19: every ApiError a handler raises with status s and message m reaches
\* the client as the envelope with HTTP status s, statusCode s, success
\* false and message m.
C19_ApiErrorEnvelope ==
    \A i \in 1..Len(errDone) :
        LET error == errDone[i].error
            response == errDone[i].response
        IN error.name = "ApiError" =>
               /\ response.http = error.statusCode
               /\ response.body.statusCode = error.statusCode
               /\ response.body.success = FALSE
               /\ response.body.message = error.message

\* The request carries an access token that is signed, not expired, and of
\* an existing user
HasValidToken(e) ==
    /\ e.token.kind = "access"
    /\ e.at < e.token.iat + AccessTtl
    /\ e.token.sub \in Users

\* The like and subscription requests whose handler has run
HandlerRuns ==
    {likeReqs[r] : r \in InFlight(likeReqs)} \cup LikeAnswers
    \cup {subReqs[r] : r \in InFlight(subReqs)} \cup SubAnswers

\* C20: the like-toggle and subscription-toggle endpoints are private.  A
\* request without a valid access token of an existing user is answered 401
\* by verifyToken; its handler never runs: every handler that runs belongs
\* to a request verifyToken let through with a valid token, and acts as that
\* token's user; and as long as every request was turned away no Like, no
\* Subscription and no counter has changed.
C20_ToggleEndpointsArePrivate ==
    /\ \A e \in AuthEntries :
           ~HasValidToken(e) => e.status = 401 /\ ~e.next
    /\ \A q \in HandlerRuns :
           \E e \in AuthEntries :
               /\ e.n = q.oid
               /\ HasValidToken(e)
               /\ q.user = e.token.sub
    /\ (\A e \in AuthEntries : e.status = 401) =>
           /\ likes = {}
           /\ subs = {}
           /\ \A t \in TargetIds : likesCount[t] = 0
           /\ \A u \in Users : subscribersCount[u] = 0

\* A request with a forged token was turned away and another, with a valid
\* token, had its toggle handler run to its answer
C20_Witness ==
    /\ \E e \in AuthEntries : e.token = Forged /\ e.status = 401
    /\ \E q \in LikeAnswers \cup SubAnswers : q.status \in {200, 201}

\* The document the request names is stored and soft-deleted
OnSoftDeleted(q) ==
    \E d \in q.pre : d.kind = q.kind /\ d.id = q.id /\ d.isDeleted

\* C21: a soft-deleted record is absent for every later request.  Once a
\* video, comment or playlist is soft-deleted, every fetch, update, delete
\* or publish toggle that starts afterwards, by any user, is answered 404
\* and writes nothing.
C21_SoftDeletedIsAbsent ==
    \A q \in OwnAnswers :
        (OnSoftDeleted(q) /\ q.kind \in {"Video", "Comment", "Playlist"}) =>
            /\ q.status = 404
            /\ q.writes = 0

\* C22: logoutUser clears the stored refresh token.  After a logout that was
\* answered 200, a refreshToken request that presents the token that was
\* valid before the logout is answered 401 and is given no tokens (requests
\* that do not overlap, and no login or refresh of that user in between).
C22_LogoutRevokesRefreshToken ==
    \A i \in 1..Len(tokDone) :
        LET q == tokDone[i]
        IN (serial /\ q.op = "logout" /\ q.status = 200
                   /\ q.before # NoToken) =>
               /\ q.stored = NoToken
               /\ \A j \in (i + 1)..Len(tokDone) :
                      LET l == tokDone[j]
                      IN (/\ l.op = "refresh"
                          /\ l.presented = q.before
                          /\ \A k \in (i + 1)..(j - 1) :
                                 tokDone[k].user # q.user) =>
                             /\ l.status = 401
                             /\ l.refresh = NoToken
                             /\ l.access = NoToken

\* C23: unsubscribe by a caller who has no active subscription to the
\* channel is answered 404 and leaves subscribersCount and the subscription
\* rows as they were (requests that do not overlap); and an unsubscribe
\* answered 404 has written nothing, however the requests interleave.
C23_UnsubscribeWithoutSubscriptionIs404 ==
    \A q \in SubAnswers :
        q.op = "unsubscribe" =>
            /\ (serial /\ ~q.pre.active) =>
                   /\ q.status = 404
                   /\ q.writes = 0
                   /\ q.post = q.pre
            /\ q.status = 404 => q.writes = 0

\* Someone else is subscribed to the channel, the caller is not, and the
\* caller's unsubscribe was answered 404
C23_Witness ==
    \E q \in SubAnswers :
        /\ serial
        /\ q.op = "unsubscribe"
        /\ ~q.pre.active
        /\ q.pre.count = 1
        /\ q.status = 404
        /\ q.post.count = 1

\* The requests about the channel other than the two given, answered or in
\* flight
OtherSubRequests(a, b) ==
    {q \in SubAnswers \cup {subReqs[r] : r \in InFlight(subReqs)} :
        q.channel = a.channel /\ q.oid \notin {a.oid, b.oid}}

\* C24: two unsubscribe requests by the same subscriber for the same
\* channel, both sent while the subscription is active and with no third
\* request about the channel beside them, however the two interleave: one is
\* answered 200 and the other 404, the row is removed once, and
\* subscribersCount ends exactly one below where it was.
C24_ConcurrentUnsubscribeOnce ==
    \A i, j \in 1..Len(subDone) :
        LET a == subDone[i]
            b == subDone[j]
        IN (/\ i < j
            /\ a.op = "unsubscribe" /\ b.op = "unsubscribe"
            /\ a.user = b.user /\ a.channel = b.channel
            /\ a.pre.active /\ b.pre.active
            /\ OtherSubRequests(a, b) = {}) =>
               /\ {a.status, b.status} = {200, 404}
               /\ \A q \in {a, b} : q.status = 404 => q.writes = 0
               /\ ~b.post.active
               /\ b.post.count = a.pre.count - 1

\* Both unsubscribes were in flight together and both are answered
C24_Witness ==
    \E i, j \in 1..Len(subDone) :
        /\ i < j
        /\ ~serial
        /\ subDone[i].op = "unsubscribe" /\ subDone[j].op = "unsubscribe"
        /\ subDone[i].user = "A" /\ subDone[j].user = "A"
        /\ subDone[i].pre.active /\ subDone[j].pre.active
        /\ subDone[i].status = 404
        /\ subDone[j].status = 200

\* The actor's earlier like of the target, or subscription to the channel,
\* was taken back and its row is kept with isDeleted set
LikeTakenBack(q) ==
    \E e \in likes : e.likedBy = q.user /\ RowTarget(e) = q.id /\ e.isDeleted

SubTakenBack(q) ==
    \E e \in subs :
        e.subscriber = q.user /\ e.channel = q.channel /\ e.isDeleted

\* A successful toggle flips the relationship
TogglesFlip ==
    /\ \A q \in LikeAnswers :
           q.status = 200 => q.post.active = ~q.pre.active
    /\ \A q \in SubAnswers :
           (q.op = "toggle" /\ q.status = 200) =>
               q.post.active = ~q.pre.active

\* The toggle that follows like-then-unlike (subscribe-then-unsubscribe)
\* succeeds and re-activates, the earlier row being kept or not
ThirdToggleReactivates ==
    /\ \A q \in LikeAnswers :
           (/\ LikeTypeValid(likeRev, q.type)
            /\ LikeTargetFound(likeRev, q.type, q.id)
            /\ ~q.pre.active
            /\ LikeTakenBack(q)) =>
               q.status = 200 /\ q.post.active
    /\ \A q \in SubAnswers :
           (/\ q.op = "toggle"
            /\ ~q.pre.active
            /\ q.user = PriorSubDoc.subscriber
            /\ q.channel = PriorSubDoc.channel
            /\ SubTakenBack(q) \/ SubHardRev(subRev)) =>
               q.status = 200 /\ q.post.active

\* C25: toggles by one actor that do not overlap alternate.  Every
\* successful toggle flips the relationship, so that after n successful
\* toggles from the inactive state it is active exactly when n is odd; and
\* the toggle that follows like-then-unlike or subscribe-then-unsubscribe
\* succeeds and re-activates, also where the earlier row is kept with
\* isDeleted set.
C25_TogglingAlternates ==
    serial => TogglesFlip /\ ThirdToggleReactivates

\* The video exists and is published
Published(video) ==
    \E v \in DOMAIN Catalogue : v = video /\ Catalogue[v].isPublished

RemovesOrClears(r) ==
    /\ histReqs[r].pc = "update"
    /\ histReqs[r].op \in {"remove", "clear"}
    /\ histReqs'[r] # histReqs[r]

\* C27: the update of removeFromWatchHistory(user, v) takes v out of that
\* user's watchHistory and keeps the other entries in their order, that of
\* clearWatchHistory(user) leaves the list empty, both are answered 200, and
\* neither changes the watchHistory of another user or a video document.
C27_RemoveAndClearTouchOneList ==
    [][\A r \in Slots :
          RemovesOrClears(r) =>
              LET q == histReqs[r]
                  old == watchHistory[q.user]
                  left == IF q.op = "clear" THEN <<>>
                          ELSE SelectSeq(old, LAMBDA x : x # q.video)
              IN /\ watchHistory' = [watchHistory EXCEPT ![q.user] = left]
                 /\ histDone'[Len(histDone')].status = 200
                 /\ docs' = docs
                 /\ viewsCount' = viewsCount
                 /\ likesCount' = likesCount]_vars

\* A video was removed from the middle of a history of three while the other
\* user has a history too, and a filled history was cleared
C27_Witness ==
    /\ \E q \in HistAnswers :
           /\ q.op = "remove" /\ q.status = 200
           /\ Len(q.pre) = 3 /\ q.pre[2] = q.video
           /\ q.post = <<q.pre[1], q.pre[3]>>
           /\ \E u \in Users : u # q.user /\ watchHistory[u] # <<>>
    /\ \E q \in HistAnswers :
           q.op = "clear" /\ q.status = 200 /\ q.pre # <<>> /\ q.post = <<>>

PlaylistAnswers ==
    {ownDone[i] : i \in 1..Len(ownDone)}

\* C28: the videos list of a playlist never holds a video twice, however
\* the requests interleave; addVideoToPlaylist by the owner for a video that
\* is in the list is answered 400 and leaves the list as it was (requests
\* that do not overlap); and the videoCount of a successful add or remove
\* is the length of the stored list after the operation.
C28_PlaylistVideosDistinct ==
    /\ \A l \in Playlists : NoDuplicates(playlistVideos[l])
    /\ \A q \in PlaylistAnswers :
           /\ (/\ serial
               /\ q.op = "addVideo"
               /\ q.status # 404
               /\ Includes(q.listPre, q.video)) =>
                  q.status = 400 /\ q.listPost = q.listPre
           /\ (q.op \in {"addVideo", "removeVideo"} /\ q.status = 200) =>
                  q.videoCount = Len(q.listPost)

\* The comments stored and not deleted, replies included; every comment of
\* these runs is on v1
LiveComments == {d \in docs : d.kind = "Comment" /\ ~d.isDeleted}

\* C30: whenever no comment request is in flight, after any sequence of
\* addComment and deleteComment, the commentsCount of the video is the
\* number of its comments that are not deleted, replies included.
C30_CommentsCountMatchesComments ==
    Quiet(ownReqs) => commentsCount["v1"] = Cardinality(LiveComments)

\* deleteVideo of the video was answered 200
VideoDeleted(id) ==
    \E q \in OwnAnswers :
        q.op = "delete" /\ q.kind = "Video" /\ q.id = id /\ q.status = 200

\* C29: once deleteVideo of a video has succeeded and the toggleLike and
\* logView requests that ran beside it are answered, no Like row and no View
\* row references the video.
C29_DeleteVideoLeavesNoRows ==
    \A id \in Videos :
        (VideoDeleted(id) /\ Quiet(likeReqs) /\ Quiet(viewReqs)) =>
            /\ {e \in likes : e.video = id} = {}
            /\ {e \in views : e.video = id} = {}

====
